---- MODULE Spec2Model ----
(***************************************************************************)
(* A model of the bold static linker (tamaroning/bold): Context, the       *)
(* ObjectFile loader, Linker::resolve_symbols, bin_input_sections,         *)
(* set_section_indices, update_shdr, assign_osec_offsets and relocation.   *)
(*                                                                         *)
(* Conventions.  ELF indices (section index, symbol slot, r_sym, st_shndx, *)
(* first_global) are 0-based as in the source; TLA+ sequences are 1-based, *)
(* so slot i of a table t is t[i + 1] (operator At0).  Strings the code    *)
(* searches or slices (section names, symbol names) are sequences of       *)
(* one-character strings.  sh_flags is the set of the flag bits that are   *)
(* set.  Opaque ids (ObjectId, InputSectionId, OutputSectionId) are the    *)
(* values of the per-kind counters, here starting at 1; 0 stands for None. *)
(* A Symbol cell (Arc<RefCell<Symbol>>) is identified by <<object, slot>>, *)
(* an ElfSymbol (Arc<ElfSymbol>) likewise.                                 *)
(***************************************************************************)
EXTENDS Integers, Sequences, FiniteSets, TLC

(* ------------------------------------------------------------------ *)
(* Program constants                                                    *)
(* ------------------------------------------------------------------ *)
PAGE_SIZE == 4096
IMAGE_BASE == 4194304
SIZEOF_EHDR == 64
SIZEOF_PHDR == 56
SIZEOF_SHDR == 64
SIZEOF_SYM == 24
SYMTAB_ALIGN == 8
SHN_UNDEF == 0
SHN_ABS == 65521
SHN_COMMON == 65522

(* ------------------------------------------------------------------ *)
(* Bounds of the model                                                  *)
(* ------------------------------------------------------------------ *)
MaxObjs == 2
MaxChunks == 3

None == 0

At0(t, i) == t[i + 1]

(* ------------------------------------------------------------------ *)
(* Strings                                                              *)
(* ------------------------------------------------------------------ *)
StartsWith(s, p) == Len(s) >= Len(p) /\ SubSeq(s, 1, Len(p)) = p

Tail0(s, n) == SubSeq(s, n + 1, Len(s))

N_text == <<".", "t", "e", "x", "t">>
N_data == <<".", "d", "a", "t", "a">>
N_data_rel_ro == N_data \o <<".", "r", "e", "l", ".", "r", "o">>
N_rodata == <<".", "r", "o", "d", "a", "t", "a">>
N_bss == <<".", "b", "s", "s">>
N_bss_rel_ro == N_bss \o <<".", "r", "e", "l", ".", "r", "o">>
N_init_array == <<".", "i", "n", "i", "t", "_", "a", "r", "r", "a", "y">>
N_fini_array == <<".", "f", "i", "n", "i", "_", "a", "r", "r", "a", "y">>
N_tbss == <<".", "t", "b", "s", "s">>
N_tdata == <<".", "t", "d", "a", "t", "a">>

COMMON_SECTION_NAMES ==
    << N_text, N_data, N_data_rel_ro, N_rodata, N_bss, N_bss_rel_ro,
       N_init_array, N_fini_array, N_tbss, N_tdata >>

N_rela == <<".", "r", "e", "l", "a">>
N_symtab == <<".", "s", "y", "m", "t", "a", "b">>
N_strtab == <<".", "s", "t", "r", "t", "a", "b">>
N_shstrtab == <<".", "s", "h", "s", "t", "r", "t", "a", "b">>
N_note_GNU_stack ==
    <<".", "n", "o", "t", "e", ".", "G", "N", "U", "-", "s", "t", "a", "c", "k">>
N_gnu_warning_ == <<".", "g", "n", "u", ".", "w", "a", "r", "n", "i", "n", "g", ".">>
N_debug_ == <<".", "d", "e", "b", "u", "g", "_">>
N_debug_types == N_debug_ \o <<"t", "y", "p", "e", "s">>
N_debug_gnu_pubnames ==
    N_debug_ \o <<"g", "n", "u", "_", "p", "u", "b", "n", "a", "m", "e", "s">>
N_debug_gnu_pubtypes ==
    N_debug_ \o <<"g", "n", "u", "_", "p", "u", "b", "t", "y", "p", "e", "s">>
N_hot == <<".", "h", "o", "t">>

N_bar == <<"b", "a", "r">>
N_bar_v == <<"b", "a", "r", "@", "v", "1">>
N_l == <<"l">>

(* output_section.rs: get_output_section_name.  The result is <<>> when   *)
(* the name matches no canonical name (the source panics there).          *)
RECURSIVE OutputNameFrom(_, _)
OutputNameFrom(input_section, k) ==
    IF k > Len(COMMON_SECTION_NAMES) THEN <<>>
    ELSE LET common_section_name == COMMON_SECTION_NAMES[k]
         IN  IF \/ input_section = common_section_name
                \/ StartsWith(input_section, common_section_name \o <<".">>)
             THEN common_section_name
             ELSE OutputNameFrom(input_section, k + 1)

get_output_section_name(input_section) == OutputNameFrom(input_section, 1)

(* parse(): `name[..name.find('@').unwrap_or(name.len())]`                 *)
RECURSIVE FindAt(_, _)
FindAt(name, k) ==
    IF k > Len(name) THEN Len(name)
    ELSE IF name[k] = "@" THEN k - 1 ELSE FindAt(name, k + 1)

StripVersion(name) == SubSeq(name, 1, FindAt(name, 1))

(* ------------------------------------------------------------------ *)
(* Input objects: what the ELF decoder hands to ObjectFile::parse       *)
(* ------------------------------------------------------------------ *)
ElfSec(name, sh_type, sh_flags, sh_size, relas) ==
    [name |-> name, sh_type |-> sh_type, sh_flags |-> sh_flags,
     sh_size |-> sh_size, sh_info |-> 0, sh_addralign |-> 1, relas |-> relas]

ElfSym(name, bind, st_shndx, st_value) ==
    [name |-> name, bind |-> bind, st_shndx |-> st_shndx, st_value |-> st_value]

Rela(r_offset, r_type, r_sym, r_addend) ==
    [r_offset |-> r_offset, r_type |-> r_type, r_sym |-> r_sym,
     r_addend |-> r_addend]

(* The second retained section of a generated object, by kind.           *)
SecondSection(kind, size) ==
    CASE kind = "data"  -> ElfSec(N_data, "PROGBITS", {"ALLOC", "WRITE"}, size, <<>>)
      [] kind = "bss"   -> ElfSec(N_bss, "NOBITS", {"ALLOC", "WRITE"}, size, <<>>)
      [] kind = "tbss"  -> ElfSec(N_tbss, "NOBITS", {"ALLOC", "WRITE", "TLS"}, size, <<>>)
      [] kind = "tdata" -> ElfSec(N_tdata, "PROGBITS", {"ALLOC", "WRITE", "TLS"}, size, <<>>)
      [] kind = "hot"   -> ElfSec(N_text \o N_hot, "PROGBITS", {"ALLOC", "EXECINSTR"}, size, <<>>)

(* A relocatable object: section 0 is the null section, section 1 is     *)
(* .text with sh_addralign 16, section 2 the second retained section     *)
(* with sh_addralign 1, then .rela.text,                                 *)
(* .symtab, .strtab, .shstrtab.  Symbol 0 is the null symbol, symbol 1 a *)
(* local label at .text+0, symbol 2 the global `bar` (defined at         *)
(* .text+bval with binding GLOBAL or WEAK, absolute with value bval, or  *)
(* an undefined reference).                                              *)
MkObjectSec(p, second) ==
    [sections |->
        << ElfSec(<<>>, "NULL", {}, 0, <<>>),
           [ElfSec(N_text, "PROGBITS", {"ALLOC", "EXECINSTR"}, p.tsize, <<>>)
               EXCEPT !.sh_addralign = 16],
           second,
           ElfSec(N_rela \o N_text, "RELA", {}, 24 * Len(p.rel), p.rel),
           ElfSec(N_symtab, "SYMTAB", {}, 72, <<>>),
           ElfSec(N_strtab, "STRTAB", {}, 7, <<>>),
           ElfSec(N_shstrtab, "STRTAB", {}, 40, <<>>) >>,
     symbols |->
        << ElfSym(<<>>, "LOCAL", SHN_UNDEF, 0),
           ElfSym(N_l, "LOCAL", 1, 0),
           CASE p.bar = "strong" -> ElfSym(N_bar_v, "GLOBAL", 1, p.bval)
             [] p.bar = "weak"   -> ElfSym(N_bar, "WEAK", 1, p.bval)
             [] p.bar = "abs"    -> ElfSym(N_bar, "GLOBAL", SHN_ABS, p.bval)
             [] p.bar = "undef"  -> ElfSym(N_bar, "GLOBAL", SHN_UNDEF, 0) >>,
     first_global |-> 2]

MkObject(p) == MkObjectSec(p, SecondSection(p.sec2, p.s2size))

(* ------------------------------------------------------------------ *)
(* State                                                                *)
(* ------------------------------------------------------------------ *)
VARIABLES
    argv,                 \* the input objects, in command-line order
    pc,                   \* position of the link driver in the pipeline
    fault,                \* the panic that aborted the link ("" if none)
    run,                  \* 1 for the first link of argv, 2 for the second
    files_order,          \* iteration order of file_pool.values()
    file_pool,            \* number of ObjectFiles inserted (ids 1..file_pool)
    file_input_sections,  \* ObjectFile.input_sections, by object id
    symbols,              \* ObjectFile.symbols (the Symbol cells), by object id
    input_sections,       \* Context.input_sections, by InputSectionId
    output_sections,      \* Context.output_sections, by OutputSectionId
    global_symbols,       \* Context.global_symbols: name -> Symbol cell
    chunks,               \* Linker.chunks
    filesize,             \* the value assign_osec_offsets returned
    buf,                  \* the bytes relocation() wrote: offset -> byte
    prev_output           \* the output of the first link, kept for comparison

vars == << argv, pc, fault, run, files_order, file_pool, file_input_sections,
           symbols, input_sections, output_sections, global_symbols, chunks,
           filesize, buf, prev_output >>

NoOffset == -1

NoSymbol == [some |-> FALSE, name |-> <<>>, file |-> None,
             esym |-> <<0, 0>>, global |-> FALSE]

(* The ElfSymbol behind an Arc<ElfSymbol>, as parse() built it.          *)
ESym(ref) ==
    LET sym == At0(argv[ref[1]].symbols, ref[2])
    IN  [name |-> StripVersion(sym.name), bind |-> sym.bind,
         st_shndx |-> sym.st_shndx, st_value |-> sym.st_value]

is_undefined(esym) == esym.st_shndx = SHN_UNDEF
is_abs(esym) == esym.st_shndx = SHN_ABS
is_common(esym) == esym.st_shndx = SHN_COMMON
is_weak(esym) == esym.bind = "WEAK"

(* The Symbol cell behind an Arc<RefCell<Symbol>>.                        *)
Cell(syms, ref) == At0(syms[ref[1]], ref[2])

(* ------------------------------------------------------------------ *)
(* context.rs                                                           *)
(* ------------------------------------------------------------------ *)
MapInsert(m, k, v) == [n \in DOMAIN m \cup {k} |-> IF n = k THEN v ELSE m[n]]

(* add_global_symbol that inserts only when the name is absent.          *)
add_global_symbol_KeepIncumbent(table, symbol) ==
    LET sym == ESym(symbol)
    IN  IF is_undefined(sym) \/ sym.name \in DOMAIN table THEN table
        ELSE MapInsert(table, sym.name, symbol)

(* Context::add_global_symbol: the symbol offered is the cell `symbol`   *)
(* of an object being parsed; its esym is still its own ElfSymbol.       *)
(* add_global_symbol without the early return for undefined symbols.     *)
add_global_symbol_UndefinedToo(table, symbol) ==
    MapInsert(table, ESym(symbol).name, symbol)

add_global_symbol(table, symbol) ==
    LET sym == ESym(symbol)
    IN  IF is_undefined(sym) THEN table
        ELSE IF sym.name \in DOMAIN table
             THEN IF is_weak(ESym(table[sym.name]))
                  THEN MapInsert(table, sym.name, symbol)   \* override weak
                  ELSE MapInsert(table, sym.name, symbol)   \* duplicate: logged only
             ELSE MapInsert(table, sym.name, symbol)

(* ------------------------------------------------------------------ *)
(* input_section.rs: ObjectFile::parse                                  *)
(* ------------------------------------------------------------------ *)
(* initialize_sections with SHT_NOTE and SHT_GROUP handled by the        *)
(* default arm.                                                          *)
SectionDisposition_NoteKept(obj, elf_section) ==
    IF "EXCLUDE" \in elf_section.sh_flags /\ "ALLOC" \notin elf_section.sh_flags
    THEN "skip"
    ELSE IF elf_section.sh_type \in {"NULL", "REL", "RELA", "SYMTAB", "STRTAB"}
    THEN "skip"
    ELSE IF elf_section.sh_type = "SYMTAB_SHNDX" THEN "panic"
    ELSE IF \/ StartsWith(elf_section.name, N_gnu_warning_)
            \/ elf_section.name = N_debug_gnu_pubnames
            \/ elf_section.name = N_debug_gnu_pubtypes
            \/ elf_section.name = N_debug_types
    THEN "skip"
    ELSE "create"

(* What initialize_sections does with one ELF section.                   *)
SectionDisposition(obj, elf_section) ==
    IF "EXCLUDE" \in elf_section.sh_flags /\ "ALLOC" \notin elf_section.sh_flags
    THEN "skip"
    ELSE IF elf_section.sh_type \in {"NULL", "REL", "RELA", "SYMTAB", "STRTAB"}
    THEN "skip"
    ELSE IF elf_section.sh_type = "NOTE" THEN "skip"
    ELSE IF elf_section.sh_type = "SYMTAB_SHNDX" THEN "panic"
    ELSE IF elf_section.sh_type = "GROUP"
    THEN IF elf_section.sh_info < Len(obj.symbols) THEN "skip" ELSE "panic"
    ELSE IF \/ StartsWith(elf_section.name, N_gnu_warning_)
            \/ elf_section.name = N_debug_gnu_pubnames
            \/ elf_section.name = N_debug_gnu_pubtypes
            \/ elf_section.name = N_debug_types
    THEN "skip"
    ELSE "create"

Retained(obj) ==
    {i \in 1..Len(obj.sections) : SectionDisposition(obj, obj.sections[i]) = "create"}

(* relocation records parse() collects under the key `target`: those of  *)
(* every section named ".rela" + target, in section order.               *)
RECURSIVE ElfRelsFrom(_, _, _)
ElfRelsFrom(obj, target, i) ==
    IF i > Len(obj.sections) THEN <<>>
    ELSE LET name == obj.sections[i].name
         IN  (IF StartsWith(name, N_rela) /\ Tail0(name, 5) = target
              THEN obj.sections[i].relas ELSE <<>>)
             \o ElfRelsFrom(obj, target, i + 1)

(* initialize_symbols: the Symbol cells of the object.                    *)
InitialSymbols(obj) ==
    [k \in 1..Len(obj.symbols) |->
        LET i == k - 1
        IN  IF i >= obj.first_global
            THEN [some |-> TRUE, name |-> StripVersion(obj.symbols[k].name),
                  file |-> None, esym |-> <<0, 0>>, global |-> TRUE]
            ELSE IF i = 0 THEN NoSymbol
            ELSE [some |-> TRUE, name |-> StripVersion(obj.symbols[k].name),
                  file |-> None, esym |-> <<0, 0>>, global |-> FALSE]]

(* initialize_symbols: the global symbols are offered in slot order.      *)
RECURSIVE OfferGlobals(_, _, _)
OfferGlobals(table, id, i) ==
    IF i >= Len(argv[id].symbols) THEN table
    ELSE OfferGlobals(add_global_symbol(table, <<id, i>>), id, i + 1)

(* initialize_relocations: the first retained section named `name` takes *)
(* the records filed under that name (elf_rels.remove).                   *)
RelasOf(obj, i) ==
    IF \E j \in Retained(obj) : j < i /\ obj.sections[j].name = obj.sections[i].name
    THEN <<>>
    ELSE ElfRelsFrom(obj, obj.sections[i].name, 1)

ParsePanic(obj) ==
    IF \E i \in 1..Len(obj.sections) :
           SectionDisposition(obj, obj.sections[i]) = "panic"
    THEN "initialize_sections"
    ELSE IF \E i \in 1..(obj.first_global - 1) :
                i < Len(obj.symbols) /\ obj.symbols[i + 1].st_shndx = SHN_COMMON
    THEN "common local symbol"
    ELSE IF \E i \in Retained(obj) : \E r \in 1..Len(RelasOf(obj, i)) :
                LET r_sym == RelasOf(obj, i)[r].r_sym
                IN  r_sym >= Len(obj.symbols) \/ ~InitialSymbols(obj)[r_sym + 1].some
    THEN "initialize_relocations"
    ELSE ""

(* The InputSections parse() creates for object `id`, in ELF index order; *)
(* their ids continue the counter at `next_id`.                           *)
NewInputSections(id, next_id) ==
    LET obj == argv[id]
        idxs == Retained(obj)
        Nth(n) == CHOOSE i \in idxs : Cardinality({j \in idxs : j < i}) = n - 1
    IN  [n \in 1..Cardinality(idxs) |->
            LET es == obj.sections[Nth(n)]
            IN  [id |-> next_id + n - 1, file |-> id, shndx |-> Nth(n) - 1,
                 name |-> es.name, sh_type |-> es.sh_type,
                 sh_flags |-> es.sh_flags, sh_size |-> es.sh_size,
                 sh_addralign |-> es.sh_addralign,
                 elf_relas |->
                    [r \in 1..Len(RelasOf(obj, Nth(n))) |->
                        [erela |-> RelasOf(obj, Nth(n))[r],
                         symbol |-> <<id, RelasOf(obj, Nth(n))[r].r_sym>>]],
                 offset |-> NoOffset, output_section |-> None]]

SlotsOf(id, next_id) ==
    LET obj == argv[id]
        idxs == Retained(obj)
    IN  [i \in 1..Len(obj.sections) |->
            IF i \in idxs
            THEN next_id + Cardinality({j \in idxs : j < i})
            ELSE None]

(* The driver loads the next object of argv: parse, then set_object_file. *)
ParseNext ==
    /\ pc = "parse"
    /\ file_pool < Len(argv)
    /\ LET id == file_pool + 1
           obj == argv[id]
           next_id == Len(input_sections) + 1
       IN  IF ParsePanic(obj) # ""
           THEN /\ pc' = "panic"
                /\ fault' = ParsePanic(obj)
                /\ UNCHANGED << file_pool, file_input_sections, symbols,
                                input_sections, global_symbols >>
           ELSE /\ file_input_sections' =
                      Append(file_input_sections, SlotsOf(id, next_id))
                /\ input_sections' =
                      input_sections \o NewInputSections(id, next_id)
                /\ symbols' =
                      Append(symbols,
                             [k \in 1..Len(obj.symbols) |->
                                 IF InitialSymbols(obj)[k].some
                                 THEN [InitialSymbols(obj)[k] EXCEPT
                                          !.esym = <<id, k - 1>>]
                                 ELSE NoSymbol])
                /\ global_symbols' =
                      OfferGlobals(global_symbols, id, obj.first_global)
                /\ file_pool' = id
                /\ pc' = IF id = Len(argv) THEN "resolve" ELSE "parse"
                /\ UNCHANGED fault
    /\ UNCHANGED << argv, run, files_order, output_sections, chunks, filesize,
                    buf, prev_output >>

(* ------------------------------------------------------------------ *)
(* linker.rs: resolve_symbols                                           *)
(* ------------------------------------------------------------------ *)
(* First loop: every Symbol slot whose own ELF symbol is defined gets    *)
(* its object as defining file.                                          *)
SetDefinedFiles(syms) ==
    [id \in 1..Len(syms) |->
        [k \in 1..Len(syms[id]) |->
            IF ~is_undefined(ESym(<<id, k - 1>>)) /\ syms[id][k].some
            THEN [syms[id][k] EXCEPT !.file = id]
            ELSE syms[id][k]]]

(* Second loop: an undefined global slot takes the defining file and the *)
(* ElfSymbol of the global table's entry for its name.                   *)
NeedsResolution(syms, id, k) ==
    /\ syms[id][k].some
    /\ k - 1 >= argv[id].first_global
    /\ is_undefined(ESym(<<id, k - 1>>))

(* The second loop updating the defining file but not the ElfSymbol.     *)
ResolveUndefined_FileOnly(syms, table) ==
    [id \in 1..Len(syms) |->
        [k \in 1..Len(syms[id]) |->
            IF /\ NeedsResolution(syms, id, k)
               /\ ESym(<<id, k - 1>>).name \in DOMAIN table
            THEN [syms[id][k] EXCEPT
                     !.file = Cell(syms, table[ESym(<<id, k - 1>>).name]).file]
            ELSE syms[id][k]]]

ResolveUndefined(syms, table) ==
    [id \in 1..Len(syms) |->
        [k \in 1..Len(syms[id]) |->
            IF /\ NeedsResolution(syms, id, k)
               /\ ESym(<<id, k - 1>>).name \in DOMAIN table
            THEN LET global_symbol == Cell(syms, table[ESym(<<id, k - 1>>).name])
                 IN  [syms[id][k] EXCEPT !.file = global_symbol.file,
                                         !.esym = global_symbol.esym]
            ELSE syms[id][k]]]

(* assert!(defined_file.is_some())                                        *)
ResolveAssertFails(syms, table) ==
    \E id \in 1..Len(syms) : \E k \in 1..Len(syms[id]) :
        /\ NeedsResolution(syms, id, k)
        /\ ESym(<<id, k - 1>>).name \in DOMAIN table
        /\ Cell(syms, table[ESym(<<id, k - 1>>).name]).file = None

ResolveSymbols ==
    /\ pc = "resolve"
    /\ LET defined == SetDefinedFiles(symbols)
       IN  IF ResolveAssertFails(defined, global_symbols)
           THEN /\ symbols' = defined
                /\ pc' = "panic"
                /\ fault' = "resolve_symbols"
           ELSE /\ symbols' = ResolveUndefined(defined, global_symbols)
                /\ pc' = "bin"
                /\ UNCHANGED fault
    /\ UNCHANGED << argv, run, files_order, file_pool, file_input_sections,
                    input_sections, output_sections, global_symbols, chunks,
                    filesize, buf, prev_output >>

(* ------------------------------------------------------------------ *)
(* Iteration over Context.file_pool                                     *)
(* ------------------------------------------------------------------ *)
(* Context::files / files_mut iterate file_pool.values(), a std HashMap  *)
(* keyed by ObjectId: the order is that of the map's hash seed, fixed    *)
(* for one process and unrelated to insertion order.  files_order is     *)
(* that order for the current link.                                      *)
FileOrders(n) ==
    {f \in [1..n -> 1..n] : \A i, j \in 1..n : i # j => f[i] # f[j]}

RECURSIVE Flatten(_)
Flatten(ss) == IF ss = <<>> THEN <<>> ELSE Head(ss) \o Flatten(Tail(ss))

SelectSeq0(sq) == SelectSeq(sq, LAMBDA x : x # None)

(* ------------------------------------------------------------------ *)
(* linker.rs: bin_input_sections                                        *)
(* ------------------------------------------------------------------ *)
(* The ids the first loop collects: per object in files() order, the     *)
(* present slots in ELF index order.                                     *)
CollectInputSections ==
    Flatten([n \in 1..Len(files_order) |->
                SelectSeq0(file_input_sections[files_order[n]])])

SameTriple(section, name, sh_type, sh_flags) ==
    /\ section.name = name
    /\ section.sh_type = sh_type
    /\ section.sh_flags = sh_flags

(* get_or_create_output_section_mut matching on the name alone.         *)
get_or_create_output_section_mut_ByName(osecs, name, sh_type, sh_flags) ==
    IF \E id \in 1..Len(osecs) : osecs[id].name = name
    THEN [id |-> CHOOSE id \in 1..Len(osecs) : osecs[id].name = name,
          osecs |-> osecs]
    ELSE [id |-> Len(osecs) + 1,
          osecs |-> Append(osecs, [id |-> Len(osecs) + 1, name |-> name,
                                   input_sections |-> <<>>,
                                   sh_type |-> sh_type, sh_flags |-> sh_flags])]

(* Context::get_or_create_output_section_mut: the id found or created,   *)
(* and the table of output sections afterwards.                          *)
get_or_create_output_section_mut(osecs, name, sh_type, sh_flags) ==
    IF \E id \in 1..Len(osecs) : SameTriple(osecs[id], name, sh_type, sh_flags)
    THEN [id |-> CHOOSE id \in 1..Len(osecs) :
                     SameTriple(osecs[id], name, sh_type, sh_flags),
          osecs |-> osecs]
    ELSE [id |-> Len(osecs) + 1,
          osecs |-> Append(osecs, [id |-> Len(osecs) + 1, name |-> name,
                                   input_sections |-> <<>>,
                                   sh_type |-> sh_type, sh_flags |-> sh_flags])]

(* The second loop looking the output section up under the input        *)
(* section's own name.                                                   *)
BinOne_RawName(st, input_section_id) ==
    LET input_section == st.isecs[input_section_id]
        got == get_or_create_output_section_mut(
                   st.osecs, input_section.name,
                   input_section.sh_type, input_section.sh_flags)
    IN  IF st.panic THEN st
        ELSE IF get_output_section_name(input_section.name) = <<>>
        THEN [st EXCEPT !.panic = TRUE]
        ELSE [osecs |-> [got.osecs EXCEPT ![got.id].input_sections =
                            Append(@, input_section_id)],
              isecs |-> [st.isecs EXCEPT
                            ![input_section_id].output_section = got.id],
              new |-> IF got.osecs[got.id].input_sections = <<>>
                      THEN Append(st.new, got.id) ELSE st.new,
              panic |-> FALSE]

(* The second loop reporting the output section as new on every turn.    *)
BinOne_AlwaysNew(st, input_section_id) ==
    LET input_section == st.isecs[input_section_id]
        output_section_name == get_output_section_name(input_section.name)
        got == get_or_create_output_section_mut(
                   st.osecs, output_section_name,
                   input_section.sh_type, input_section.sh_flags)
    IN  IF st.panic THEN st
        ELSE IF output_section_name = <<>> THEN [st EXCEPT !.panic = TRUE]
        ELSE [osecs |-> [got.osecs EXCEPT ![got.id].input_sections =
                            Append(@, input_section_id)],
              isecs |-> [st.isecs EXCEPT
                            ![input_section_id].output_section = got.id],
              new |-> Append(st.new, got.id),
              panic |-> FALSE]

(* One turn of the second loop, on the state st = [osecs, isecs, new,    *)
(* panic].                                                               *)
BinOne(st, input_section_id) ==
    LET input_section == st.isecs[input_section_id]
        output_section_name == get_output_section_name(input_section.name)
        got == get_or_create_output_section_mut(
                   st.osecs, output_section_name,
                   input_section.sh_type, input_section.sh_flags)
    IN  IF st.panic THEN st
        ELSE IF output_section_name = <<>> THEN [st EXCEPT !.panic = TRUE]
        ELSE [osecs |-> [got.osecs EXCEPT ![got.id].input_sections =
                            Append(@, input_section_id)],
              isecs |-> [st.isecs EXCEPT
                            ![input_section_id].output_section = got.id],
              new |-> IF got.osecs[got.id].input_sections = <<>>
                      THEN Append(st.new, got.id) ELSE st.new,
              panic |-> FALSE]

RECURSIVE BinAll(_, _)
BinAll(st, ids) ==
    IF ids = <<>> THEN st ELSE BinAll(BinOne(st, Head(ids)), Tail(ids))

bin_input_sections ==
    BinAll([osecs |-> output_sections, isecs |-> input_sections,
            new |-> <<>>, panic |-> FALSE],
           CollectInputSections)

(* ------------------------------------------------------------------ *)
(* output_section.rs: the chunks                                        *)
(* ------------------------------------------------------------------ *)
(* ChunkInfo::new: a zeroed Elf64_Shdr with sh_addralign = 1, no shndx.  *)
ChunkInfo ==
    [sh_name |-> 0, sh_type |-> "NULL", sh_flags |-> {}, sh_addr |-> 0,
     sh_offset |-> 0, sh_size |-> 0, sh_link |-> 0, sh_addralign |-> 1,
     sh_entsize |-> 0]

Chunk(kind, osec, shdr) ==
    [kind |-> kind, osec |-> osec, shdr |-> shdr, shndx |-> None]

OutputEhdr == Chunk("Ehdr", None, [ChunkInfo EXCEPT !.sh_size = SIZEOF_EHDR])
OutputPhdr == Chunk("Phdr", None, ChunkInfo)
OutputShdr == Chunk("Shdr", None, ChunkInfo)

OutputSectionRef(osec) ==
    Chunk("Section", osec.id,
          [ChunkInfo EXCEPT !.sh_type = osec.sh_type, !.sh_flags = osec.sh_flags])

Symtab ==
    Chunk("Symtab", None,
          [ChunkInfo EXCEPT !.sh_type = "SYMTAB", !.sh_entsize = SIZEOF_SYM,
                            !.sh_addralign = SYMTAB_ALIGN, !.sh_size = SIZEOF_SYM])

Strtab == Chunk("Strtab", None, [ChunkInfo EXCEPT !.sh_type = "STRTAB"])
Shstrtab == Chunk("Shstrtab", None, [ChunkInfo EXCEPT !.sh_type = "STRTAB"])

is_header(chunk) == chunk.kind \in {"Ehdr", "Shdr", "Phdr"}

should_be_loaded(chunk) == "ALLOC" \in chunk.shdr.sh_flags

(* The chunk list the driver hands to the Linker: Ehdr, Phdr, Shdr, the  *)
(* output sections in the order bin_input_sections returned them, then   *)
(* Symtab, Strtab, Shstrtab.                                             *)
DriverChunks(osecs, new) ==
    << OutputEhdr, OutputPhdr, OutputShdr >>
    \o [n \in 1..Len(new) |-> OutputSectionRef(osecs[new[n]])]
    \o << Symtab, Strtab, Shstrtab >>

BinInputSections ==
    /\ pc = "bin"
    /\ LET st == bin_input_sections
       IN  IF st.panic
           THEN /\ pc' = "panic"
                /\ fault' = "Unknown section"
                /\ UNCHANGED << input_sections, output_sections, chunks >>
           ELSE /\ output_sections' = st.osecs
                /\ input_sections' = st.isecs
                /\ chunks' = DriverChunks(st.osecs, st.new)
                /\ pc' = "indices"
                /\ UNCHANGED fault
    /\ UNCHANGED << argv, run, files_order, file_pool, file_input_sections,
                    symbols, global_symbols, filesize, buf, prev_output >>

(* ------------------------------------------------------------------ *)
(* linker.rs: set_section_indices                                       *)
(* ------------------------------------------------------------------ *)
(* Numbering from 0: the first non-header chunk would get SHN_UNDEF.     *)
set_section_indices_FromZero(cs) ==
    [n \in 1..Len(cs) |->
        IF ~is_header(cs[n])
        THEN [cs[n] EXCEPT !.shndx =
                 Cardinality({m \in 1..(n - 1) : ~is_header(cs[m])})]
        ELSE cs[n]]

set_section_indices(cs) ==
    [n \in 1..Len(cs) |->
        IF ~is_header(cs[n])
        THEN [cs[n] EXCEPT !.shndx =
                 1 + Cardinality({m \in 1..(n - 1) : ~is_header(cs[m])})]
        ELSE cs[n]]

SetSectionIndices ==
    /\ pc = "indices"
    /\ chunks' = set_section_indices(chunks)
    /\ pc' = "shdr"
    /\ UNCHANGED << argv, fault, run, files_order, file_pool,
                    file_input_sections, symbols, input_sections,
                    output_sections, global_symbols, filesize, buf,
                    prev_output >>

(* ------------------------------------------------------------------ *)
(* linker.rs: addresses                                                 *)
(* ------------------------------------------------------------------ *)
(* get_common_from_osec: the position in the chunk list of the first     *)
(* Section chunk of output section `id`, None when there is none.        *)
get_common_from_osec(cs, id) ==
    IF \E n \in 1..Len(cs) : cs[n].kind = "Section" /\ cs[n].osec = id
    THEN CHOOSE n \in 1..Len(cs) :
            /\ cs[n].kind = "Section" /\ cs[n].osec = id
            /\ \A m \in 1..(n - 1) : ~(cs[m].kind = "Section" /\ cs[m].osec = id)
    ELSE None

(* get_isec_addr returning the address of the output section.           *)
get_isec_addr_OsecAddr(cs, isecs, id) ==
    LET isec == isecs[id]
        n == IF isec.output_section = None THEN None
             ELSE get_common_from_osec(cs, isec.output_section)
    IN  IF n = None THEN [panic |-> TRUE, v |-> 0]
        ELSE [panic |-> FALSE, v |-> cs[n].shdr.sh_addr]

(* get_isec_addr; `panic` stands for the unwrap() of an absent output    *)
(* section or chunk.                                                     *)
get_isec_addr(cs, isecs, id) ==
    LET isec == isecs[id]
        isec_file_ofs == IF isec.offset = NoOffset THEN 0 ELSE isec.offset
        n == IF isec.output_section = None THEN None
             ELSE get_common_from_osec(cs, isec.output_section)
    IN  IF n = None THEN [panic |-> TRUE, v |-> 0]
        ELSE [panic |-> FALSE,
              v |-> cs[n].shdr.sh_addr + (isec_file_ofs - cs[n].shdr.sh_offset)]

(* get_symbol_addr of a Symbol cell: panic (symbol.file is None, or      *)
(* st_shndx is past the object's section table), None (the slot of       *)
(* st_shndx holds no InputSection) or Some(v).                           *)
get_symbol_addr(cs, isecs, symbol) ==
    LET esym == ESym(symbol.esym)
        slots == file_input_sections[symbol.file]
    IN  IF symbol.file = None THEN [panic |-> TRUE, some |-> FALSE, v |-> 0]
        ELSE IF esym.st_shndx >= Len(slots)
        THEN [panic |-> TRUE, some |-> FALSE, v |-> 0]
        ELSE IF At0(slots, esym.st_shndx) = None
        THEN [panic |-> FALSE, some |-> FALSE, v |-> 0]
        ELSE LET a == get_isec_addr(cs, isecs, At0(slots, esym.st_shndx))
             IN  [panic |-> a.panic, some |-> ~a.panic,
                  v |-> a.v + esym.st_value]

(* ------------------------------------------------------------------ *)
(* linker.rs: the synthetic tables                                      *)
(* ------------------------------------------------------------------ *)
NUL == "NUL"

get_section_name(chunk) ==
    CASE chunk.kind = "Section"  -> output_sections[chunk.osec].name
      [] chunk.kind = "Strtab"   -> N_strtab
      [] chunk.kind = "Symtab"   -> N_symtab
      [] chunk.kind = "Shstrtab" -> N_shstrtab

get_shstrtab_content(cs) ==
    <<NUL>> \o Flatten([n \in 1..Len(cs) |->
                           IF is_header(cs[n]) THEN <<>>
                           ELSE get_section_name(cs[n]) \o <<NUL>>])

RECURSIVE FindFrom(_, _, _)
FindFrom(content, needle, i) ==
    IF i >= Len(content) THEN 0
    ELSE IF StartsWith(Tail0(content, i), needle) THEN i
    ELSE FindFrom(content, needle, i + 1)

(* Matching the whole entry with the NUL that precedes it, and returning *)
(* where the match starts: sh_name lands one byte before the name.       *)
calc_sh_name_from_shstrtab_WholeEntry(shstrtab_content, section_name) ==
    FindFrom(shstrtab_content, <<NUL>> \o section_name \o <<NUL>>, 0)

calc_sh_name_from_shstrtab(shstrtab_content, section_name) ==
    FindFrom(shstrtab_content, section_name \o <<NUL>>, 0)

(* get_symbols: the cells a file holds whose defining file is that file, *)
(* per object in files() order, in slot order.                           *)
(* get_symbols that takes every slot with a defining file, whichever     *)
(* object defines it.                                                    *)
get_symbols_AnyFile ==
    Flatten([n \in 1..Len(files_order) |->
        LET id == files_order[n]
        IN  SelectSeq([k \in 1..Len(symbols[id]) |-> <<id, k - 1>>],
                      LAMBDA ref : /\ Cell(symbols, ref).some
                                   /\ Cell(symbols, ref).file # None)])

get_symbols ==
    Flatten([n \in 1..Len(files_order) |->
        LET id == files_order[n]
        IN  SelectSeq([k \in 1..Len(symbols[id]) |-> <<id, k - 1>>],
                      LAMBDA ref : /\ Cell(symbols, ref).some
                                   /\ Cell(symbols, ref).file = id)])

(* One turn of get_symtab's loop on st = [symtab, strtab, panic].        *)
SymtabOne(cs, isecs, st, ref) ==
    LET sym == Cell(symbols, ref)
        esym == ESym(sym.esym)
        addr == get_symbol_addr(cs, isecs, sym)
        slot == At0(file_input_sections[sym.file], esym.st_shndx)
        n == IF slot = None \/ isecs[slot].output_section = None THEN None
             ELSE get_common_from_osec(cs, isecs[slot].output_section)
        out(st_value, st_shndx) ==
            [symtab |-> Append(st.symtab,
                               [st_name |-> Len(st.strtab), bind |-> esym.bind,
                                st_shndx |-> st_shndx, st_value |-> st_value]),
             strtab |-> st.strtab \o sym.name \o <<NUL>>,
             panic |-> FALSE]
    IN  IF st.panic THEN st
        ELSE IF is_abs(esym) THEN out(esym.st_value, esym.st_shndx)
        ELSE IF is_common(esym) THEN [st EXCEPT !.panic = TRUE]
        ELSE IF addr.panic THEN [st EXCEPT !.panic = TRUE]
        ELSE IF n = None THEN [st EXCEPT !.panic = TRUE]
        ELSE IF cs[n].shndx = None THEN [st EXCEPT !.panic = TRUE]
        ELSE out(IF addr.some THEN addr.v ELSE 0, cs[n].shndx)

RECURSIVE SymtabAll(_, _, _, _)
SymtabAll(cs, isecs, st, refs) ==
    IF refs = <<>> THEN st
    ELSE SymtabAll(cs, isecs, SymtabOne(cs, isecs, st, Head(refs)), Tail(refs))

NullSym == [st_name |-> 0, bind |-> "LOCAL", st_shndx |-> 0, st_value |-> 0]

get_symtab(cs, isecs) ==
    SymtabAll(cs, isecs,
              [symtab |-> <<NullSym>>, strtab |-> <<NUL>>, panic |-> FALSE],
              get_symbols)

(* ------------------------------------------------------------------ *)
(* linker.rs: update_shdr                                               *)
(* ------------------------------------------------------------------ *)
NonHeaders(cs) == {n \in 1..Len(cs) : ~is_header(cs[n])}

StrtabChunks(cs) == {n \in 1..Len(cs) : cs[n].kind = "Strtab"}

UpdateShdrPanics(cs, isecs) ==
    \/ get_symtab(cs, isecs).panic
    \/ StrtabChunks(cs) = {}
    \/ \E n \in StrtabChunks(cs) :
          (\A m \in StrtabChunks(cs) : n <= m) /\ cs[n].shndx = None

update_shdr(cs, isecs) ==
    LET shstrtab_content == get_shstrtab_content(cs)
        num_shdrs == 1 + Cardinality(NonHeaders(cs))
        num_phdrs == Cardinality({n \in 1..Len(cs) : should_be_loaded(cs[n])})
        tables == get_symtab(cs, isecs)
        strtab_shndx == cs[CHOOSE n \in StrtabChunks(cs) :
                              \A m \in StrtabChunks(cs) : n <= m].shndx
        named == [n \in 1..Len(cs) |->
                     IF is_header(cs[n]) THEN cs[n]
                     ELSE [cs[n] EXCEPT !.shdr.sh_name =
                              calc_sh_name_from_shstrtab(
                                  shstrtab_content, get_section_name(cs[n]))]]
    IN  [n \in 1..Len(cs) |->
            CASE named[n].kind \in {"Ehdr", "Section"} -> named[n]
              [] named[n].kind = "Shdr" ->
                   [named[n] EXCEPT !.shdr.sh_size = num_shdrs * SIZEOF_SHDR]
              [] named[n].kind = "Phdr" ->
                   [named[n] EXCEPT !.shdr.sh_size = num_phdrs * SIZEOF_PHDR]
              [] named[n].kind = "Symtab" ->
                   [named[n] EXCEPT
                       !.shdr.sh_size = Len(tables.symtab) * SIZEOF_SYM,
                       !.shdr.sh_link = strtab_shndx]
              [] named[n].kind = "Strtab" ->
                   [named[n] EXCEPT !.shdr.sh_size = Len(tables.strtab)]
              [] named[n].kind = "Shstrtab" ->
                   [named[n] EXCEPT !.shdr.sh_size = Len(shstrtab_content)]]

UpdateShdr ==
    /\ pc = "shdr"
    /\ IF UpdateShdrPanics(chunks, input_sections)
       THEN /\ pc' = "panic"
            /\ fault' = "update_shdr"
            /\ UNCHANGED chunks
       ELSE /\ chunks' = update_shdr(chunks, input_sections)
            /\ pc' = "layout"
            /\ UNCHANGED fault
    /\ UNCHANGED << argv, run, files_order, file_pool, file_input_sections,
                    symbols, input_sections, output_sections, global_symbols,
                    filesize, buf, prev_output >>

(* ------------------------------------------------------------------ *)
(* utils.rs, linker.rs: assign_osec_offsets                             *)
(* ------------------------------------------------------------------ *)
(* align_to without the mask.                                            *)
align_to_NoMask(val, align) == val + align - 1

(* (val + align - 1) & !(align - 1), for align a power of two.           *)
align_to(val, align) == (val + align - 1) - ((val + align - 1) % align)

(* set_offset giving every member the offset of the chunk.               *)
RECURSIVE SetMemberOffsets_NoAdvance(_, _, _)
SetMemberOffsets_NoAdvance(isecs, members, offset) ==
    IF members = <<>> THEN [isecs |-> isecs, offset |-> offset]
    ELSE SetMemberOffsets_NoAdvance(
             [isecs EXCEPT ![Head(members)].offset = offset],
             Tail(members), offset)

(* OutputChunk::set_offset for a Section chunk: the members' offsets.    *)
RECURSIVE SetMemberOffsets(_, _, _)
SetMemberOffsets(isecs, members, offset) ==
    IF members = <<>> THEN [isecs |-> isecs, offset |-> offset]
    ELSE SetMemberOffsets([isecs EXCEPT ![Head(members)].offset = offset],
                          Tail(members),
                          offset + isecs[Head(members)].sh_size)

set_offset(chunk, isecs, offset) ==
    IF chunk.kind = "Section"
    THEN LET r == SetMemberOffsets(
                      isecs, output_sections[chunk.osec].input_sections, offset)
         IN  [chunk |-> [chunk EXCEPT !.shdr.sh_offset = offset,
                                      !.shdr.sh_size = r.offset - offset],
              isecs |-> r.isecs]
    ELSE [chunk |-> [chunk EXCEPT !.shdr.sh_offset = offset], isecs |-> isecs]

(* The loop body without the page-congruence adjustment of file_ofs.     *)
ChunkFileOfs_NoCongruence(file_ofs, vaddr, sh_addralign) ==
    align_to(file_ofs, sh_addralign)

(* The file offset the loop body settles on before set_offset.           *)
ChunkFileOfs(file_ofs, vaddr, sh_addralign) ==
    LET congruent ==
            IF (vaddr % PAGE_SIZE) > (file_ofs % PAGE_SIZE)
            THEN file_ofs + ((vaddr % PAGE_SIZE) - (file_ofs % PAGE_SIZE))
            ELSE IF (vaddr % PAGE_SIZE) < (file_ofs % PAGE_SIZE)
            THEN align_to(file_ofs, PAGE_SIZE) + (vaddr % PAGE_SIZE)
            ELSE file_ofs
    IN  align_to(congruent, sh_addralign)

ChunkVaddr(chunk, vaddr) ==
    IF should_be_loaded(chunk) THEN align_to(vaddr, PAGE_SIZE) ELSE vaddr

(* The loop body with the two tests exchanged: file_ofs stays after a    *)
(* chunk with SHF_TLS, vaddr stays after a SHT_NOBITS chunk.             *)
LayoutOne_TestsExchanged(st, n) ==
    LET chunk == st.chunks[n]
        vaddr0 == ChunkVaddr(chunk, st.vaddr)
        file_ofs == ChunkFileOfs(st.file_ofs, vaddr0, chunk.shdr.sh_addralign)
        vaddr == align_to(vaddr0, chunk.shdr.sh_addralign)
        placed == set_offset(chunk, st.isecs, file_ofs)
        done == IF "ALLOC" \in placed.chunk.shdr.sh_flags
                THEN [placed.chunk EXCEPT !.shdr.sh_addr = vaddr]
                ELSE placed.chunk
        is_bss == done.shdr.sh_type = "NOBITS"
        is_tbss == "TLS" \in done.shdr.sh_flags
    IN  [chunks |-> [st.chunks EXCEPT ![n] = done],
         isecs |-> placed.isecs,
         file_ofs |-> IF is_tbss THEN file_ofs ELSE file_ofs + done.shdr.sh_size,
         vaddr |-> IF is_bss THEN vaddr ELSE vaddr + done.shdr.sh_size]

(* One turn of the loop on st = [chunks, isecs, file_ofs, vaddr].        *)
LayoutOne(st, n) ==
    LET chunk == st.chunks[n]
        vaddr0 == ChunkVaddr(chunk, st.vaddr)
        file_ofs == ChunkFileOfs(st.file_ofs, vaddr0, chunk.shdr.sh_addralign)
        vaddr == align_to(vaddr0, chunk.shdr.sh_addralign)
        placed == set_offset(chunk, st.isecs, file_ofs)
        done == IF "ALLOC" \in placed.chunk.shdr.sh_flags
                THEN [placed.chunk EXCEPT !.shdr.sh_addr = vaddr]
                ELSE placed.chunk
        is_bss == done.shdr.sh_type = "NOBITS"
        is_tbss == "TLS" \in done.shdr.sh_flags
    IN  [chunks |-> [st.chunks EXCEPT ![n] = done],
         isecs |-> placed.isecs,
         file_ofs |-> IF is_bss THEN file_ofs ELSE file_ofs + done.shdr.sh_size,
         vaddr |-> IF is_tbss THEN vaddr ELSE vaddr + done.shdr.sh_size]

RECURSIVE LayoutFrom(_, _)
LayoutFrom(st, n) ==
    IF n > Len(st.chunks) THEN st ELSE LayoutFrom(LayoutOne(st, n), n + 1)

assign_osec_offsets(cs, isecs) ==
    LayoutFrom([chunks |-> cs, isecs |-> isecs, file_ofs |-> 0,
                vaddr |-> IMAGE_BASE], 1)

AssignOsecOffsets ==
    /\ pc = "layout"
    /\ LET st == assign_osec_offsets(chunks, input_sections)
       IN  /\ chunks' = st.chunks
           /\ input_sections' = st.isecs
           /\ filesize' = st.file_ofs
    /\ pc' = "relocate"
    /\ UNCHANGED << argv, fault, run, files_order, file_pool,
                    file_input_sections, symbols, output_sections,
                    global_symbols, buf, prev_output >>

(* ------------------------------------------------------------------ *)
(* linker.rs: create_phdr                                               *)
(* ------------------------------------------------------------------ *)
to_phdr_flags(shdr) ==
    {"PF_R"}
    \cup (IF "WRITE" \in shdr.sh_flags THEN {"PF_W"} ELSE {})
    \cup (IF "EXECINSTR" \in shdr.sh_flags THEN {"PF_X"} ELSE {})

(* p_filesz taken from sh_size for every type, SHT_NOBITS included.      *)
new_phdr_FileszIsSize(p_type, p_flags, p_align, chunk_shdr) ==
    [p_type |-> p_type, p_flags |-> p_flags,
     p_offset |-> chunk_shdr.sh_offset,
     p_vaddr |-> chunk_shdr.sh_addr,
     p_paddr |-> chunk_shdr.sh_addr,
     p_filesz |-> chunk_shdr.sh_size,
     p_memsz |-> chunk_shdr.sh_size,
     p_align |-> p_align]

new_phdr(p_type, p_flags, p_align, chunk_shdr) ==
    [p_type |-> p_type, p_flags |-> p_flags,
     p_offset |-> chunk_shdr.sh_offset,
     p_vaddr |-> chunk_shdr.sh_addr,
     p_paddr |-> chunk_shdr.sh_addr,
     p_filesz |-> IF chunk_shdr.sh_type = "NOBITS" THEN 0
                  ELSE chunk_shdr.sh_size,
     p_memsz |-> chunk_shdr.sh_size,
     p_align |-> p_align]

RECURSIVE CreatePhdrFrom(_, _, _)
CreatePhdrFrom(cs, n, phdrs) ==
    IF n > Len(cs) THEN phdrs
    ELSE CreatePhdrFrom(cs, n + 1,
            IF should_be_loaded(cs[n])
            THEN Append(phdrs, new_phdr("PT_LOAD", to_phdr_flags(cs[n].shdr),
                                        PAGE_SIZE, cs[n].shdr))
            ELSE phdrs)

create_phdr(cs) == CreatePhdrFrom(cs, 1, <<>>)

(* ------------------------------------------------------------------ *)
(* linker.rs: copy_buf                                                  *)
(* ------------------------------------------------------------------ *)
(* The slices of buf that copy_buf writes, as [chunk, from, size], in    *)
(* the order of the loop.  InputSection::copy_buf writes sh_size bytes   *)
(* at the member's offset unless the section's data is empty, which is   *)
(* the case of SHT_NOBITS sections.                                      *)
CopyBufWrites(cs, isecs) ==
    LET tables == get_symtab(cs, isecs)
        of(n) ==
            LET at == cs[n].shdr.sh_offset
                one(size) == << [chunk |-> n, from |-> at, size |-> size] >>
            IN  CASE cs[n].kind = "Ehdr" -> one(SIZEOF_EHDR)
                  [] cs[n].kind = "Shdr" ->
                       one(SIZEOF_SHDR * (1 + Cardinality(NonHeaders(cs))))
                  [] cs[n].kind = "Phdr" ->
                       one(SIZEOF_PHDR * Len(create_phdr(cs)))
                  [] cs[n].kind = "Section" ->
                       LET members == output_sections[cs[n].osec].input_sections
                           data == SelectSeq(members,
                                       LAMBDA id : isecs[id].sh_type # "NOBITS")
                       IN  [k \in 1..Len(data) |->
                               [chunk |-> n, from |-> isecs[data[k]].offset,
                                size |-> isecs[data[k]].sh_size]]
                  [] cs[n].kind = "Symtab" -> one(SIZEOF_SYM * Len(tables.symtab))
                  [] cs[n].kind = "Strtab" -> one(Len(tables.strtab))
                  [] cs[n].kind = "Shstrtab" -> one(Len(get_shstrtab_content(cs)))
    IN  Flatten([n \in 1..Len(cs) |-> of(n)])

(* ------------------------------------------------------------------ *)
(* relocation.rs                                                        *)
(* ------------------------------------------------------------------ *)
(* relocation_value with the PC-relative types computed as S + A.        *)
relocation_value_NoP(symbol_addr, isec_addr, rela) ==
    LET s == symbol_addr
        a == rela.r_addend
    IN  CASE rela.r_type = "R_X86_64_NONE" -> [kind |-> "none", v |-> 0]
          [] rela.r_type \in {"R_X86_64_PC32", "R_X86_64_PLT32", "R_X86_64_8",
                              "R_X86_64_16", "R_X86_64_32", "R_X86_64_32S",
                              "R_X86_64_64"} ->
                [kind |-> "some", v |-> s + a]
          [] rela.r_type \in {"R_X86_64_GOTTPOFF", "R_X86_64_GOTPCRELX"} ->
                [kind |-> "some", v |-> 0]
          [] OTHER -> [kind |-> "todo", v |-> 0]

(* relocation_value.  The u64 result is kept as the integer it encodes   *)
(* in two's complement (a negative integer v stands for 2^64 + v): the   *)
(* `as i64` / `as u64` casts change no bit.  kind is "none" (None),      *)
(* "some" (Some(v)) or "todo" (the todo!() arm).                         *)
relocation_value(symbol_addr, isec_addr, rela) ==
    LET s == symbol_addr
        a == rela.r_addend
        p_ == isec_addr + rela.r_offset
    IN  CASE rela.r_type = "R_X86_64_NONE" -> [kind |-> "none", v |-> 0]
          [] rela.r_type \in {"R_X86_64_PC32", "R_X86_64_PLT32"} ->
                [kind |-> "some", v |-> s + a - p_]
          [] rela.r_type \in {"R_X86_64_8", "R_X86_64_16", "R_X86_64_32",
                              "R_X86_64_32S", "R_X86_64_64"} ->
                [kind |-> "some", v |-> s + a]
          [] rela.r_type \in {"R_X86_64_GOTTPOFF", "R_X86_64_GOTPCRELX"} ->
                [kind |-> "some", v |-> 0]
          [] OTHER -> [kind |-> "todo", v |-> 0]

(* relocation_size; -1 stands for the todo!() arm.                        *)
relocation_size(rela) ==
    CASE rela.r_type = "R_X86_64_NONE" -> 0
      [] rela.r_type = "R_X86_64_8" -> 1
      [] rela.r_type = "R_X86_64_16" -> 2
      [] rela.r_type = "R_X86_64_32" -> 4
      [] rela.r_type = "R_X86_64_32S" -> 4
      [] rela.r_type = "R_X86_64_64" -> 8
      [] rela.r_type = "R_X86_64_PC32" -> 4
      [] rela.r_type = "R_X86_64_GOT32" -> 4
      [] rela.r_type = "R_X86_64_PLT32" -> 4
      [] rela.r_type = "R_X86_64_GOTTPOFF" -> 4
      [] rela.r_type = "R_X86_64_GOTPCRELX" -> 4
      [] OTHER -> -1

(* u64::to_le_bytes, byte i (0..7) of the two's complement encoding of   *)
(* v.  Addresses and addends of the model stay within 32 bits, so bytes  *)
(* 4..7 are the sign extension.                                          *)
to_le_bytes(v, i) ==
    IF i <= 3 THEN (v \div (256 ^ i)) % 256
    ELSE IF v < 0 THEN 255 ELSE 0

(* ------------------------------------------------------------------ *)
(* linker.rs: get_relocation_data, relocation                           *)
(* ------------------------------------------------------------------ *)
(* The RelValue of one relocation record of input section isec, or the   *)
(* reason the pass panics on it, or "skip" (relocation_value is None).   *)
RelValueOf(cs, isecs, isec, rel) ==
    LET isec_addr == get_isec_addr(cs, isecs, isec.id)
        symbol == Cell(symbols, rel.symbol)
        symbol_addr == get_symbol_addr(cs, isecs, symbol)
        value == relocation_value(symbol_addr.v, isec_addr.v, rel.erela)
    IN  IF isec_addr.panic THEN [kind |-> "panic", why |-> "get_isec_addr"]
        ELSE IF symbol.file = None
        THEN [kind |-> "panic", why |-> "symbol.file is None"]
        ELSE IF symbol_addr.panic \/ ~symbol_addr.some
        THEN [kind |-> "panic", why |-> "get_symbol_addr"]
        ELSE IF value.kind = "todo"
        THEN [kind |-> "panic", why |-> "relocation_value"]
        ELSE IF value.kind = "none" THEN [kind |-> "skip"]
        ELSE IF isec.offset = NoOffset
        THEN [kind |-> "panic", why |-> "get_offset"]
        ELSE IF relocation_size(rel.erela) < 0
        THEN [kind |-> "panic", why |-> "relocation_size"]
        ELSE [kind |-> "value",
              file_ofs |-> isec.offset + rel.erela.r_offset,
              value |-> value.v,
              size |-> relocation_size(rel.erela)]

(* All relocation records, per object in files() order, per input        *)
(* section in ELF index order, in record order.                          *)
AllRelas(isecs) ==
    Flatten([n \in 1..Len(files_order) |->
        Flatten([k \in 1..Len(file_input_sections[files_order[n]]) |->
            LET id == file_input_sections[files_order[n]][k]
            IN  IF id = None THEN <<>>
                ELSE [r \in 1..Len(isecs[id].elf_relas) |->
                         [isec |-> id, rel |-> isecs[id].elf_relas[r]]]])])

(* An input section with no records still has its address taken.         *)
IsecAddrPanic(cs, isecs) ==
    \E id \in 1..Len(isecs) : get_isec_addr(cs, isecs, id).panic

get_relocation_data(cs, isecs) ==
    LET all == [n \in 1..Len(AllRelas(isecs)) |->
                   RelValueOf(cs, isecs, isecs[AllRelas(isecs)[n].isec],
                              AllRelas(isecs)[n].rel)]
        bad == {n \in 1..Len(all) : all[n].kind = "panic"}
    IN  IF IsecAddrPanic(cs, isecs)
        THEN [panic |-> TRUE, why |-> "get_isec_addr", data |-> <<>>]
        ELSE IF bad # {}
        THEN [panic |-> TRUE,
              why |-> all[CHOOSE n \in bad : \A m \in bad : n <= m].why,
              data |-> <<>>]
        ELSE [panic |-> FALSE, why |-> "",
              data |-> SelectSeq(all, LAMBDA rv : rv.kind = "value")]

(* buf[file_ofs..file_ofs + size].copy_from_slice(&value[0..size])        *)
WriteValue(b, relval) ==
    LET range == relval.file_ofs..(relval.file_ofs + relval.size - 1)
    IN  [o \in DOMAIN b \cup range |->
            IF o \in range THEN to_le_bytes(relval.value, o - relval.file_ofs)
            ELSE b[o]]

(* The loop of relocation() on st = [buf, panic]; a slice past the end   *)
(* of the buffer panics.                                                 *)
RECURSIVE ApplyRelValues(_, _, _)
ApplyRelValues(st, data, size) ==
    IF data = <<>> \/ st.panic THEN st
    ELSE IF Head(data).file_ofs + Head(data).size > size
    THEN [st EXCEPT !.panic = TRUE]
    ELSE ApplyRelValues([st EXCEPT !.buf = WriteValue(st.buf, Head(data))],
                        Tail(data), size)

EmptyBuf == [o \in {} |-> 0]

Relocation ==
    /\ pc = "relocate"
    /\ LET relocation_data == get_relocation_data(chunks, input_sections)
           st == ApplyRelValues([buf |-> buf, panic |-> FALSE],
                                relocation_data.data, filesize)
       IN  IF relocation_data.panic
           THEN /\ pc' = "panic"
                /\ fault' = relocation_data.why
                /\ UNCHANGED buf
           ELSE /\ buf' = st.buf
                /\ pc' = IF st.panic THEN "panic" ELSE "done"
                /\ fault' = IF st.panic THEN "buffer range" ELSE fault
    /\ UNCHANGED << argv, run, files_order, file_pool, file_input_sections,
                    symbols, input_sections, output_sections, global_symbols,
                    chunks, filesize, prev_output >>

(* ------------------------------------------------------------------ *)
(* The output of a link, and a second link of the same argv             *)
(* ------------------------------------------------------------------ *)
(* What the output file is made of: the chunks' headers and section      *)
(* indices in chunk order, the members of each Section chunk in order    *)
(* with the offset of each, the symbol and string tables, the file size  *)
(* and the relocated bytes.                                              *)
Output ==
    [shdrs |-> [n \in 1..Len(chunks) |->
                   [kind |-> chunks[n].kind, shdr |-> chunks[n].shdr,
                    shndx |-> chunks[n].shndx,
                    members |->
                       IF chunks[n].kind = "Section"
                       THEN output_sections[chunks[n].osec].input_sections
                       ELSE <<>>]],
     offsets |-> [id \in 1..Len(input_sections) |-> input_sections[id].offset],
     tables |-> get_symtab(chunks, input_sections),
     filesize |-> filesize,
     buf |-> buf]

NoOutput == <<>>

Rerun ==
    /\ pc = "done"
    /\ run = 1
    /\ run' = 2
    /\ prev_output' = Output
    /\ files_order' \in FileOrders(Len(argv))
    /\ pc' = "parse"
    /\ file_pool' = 0
    /\ file_input_sections' = <<>>
    /\ symbols' = <<>>
    /\ input_sections' = <<>>
    /\ output_sections' = <<>>
    /\ global_symbols' = <<>>
    /\ chunks' = <<>>
    /\ filesize' = 0
    /\ buf' = EmptyBuf
    /\ UNCHANGED << argv, fault >>

(* ------------------------------------------------------------------ *)
(* Specifications                                                       *)
(* ------------------------------------------------------------------ *)
InitWith(inputs) ==
    /\ argv \in inputs
    /\ files_order \in FileOrders(Len(argv))
    /\ pc = "parse"
    /\ fault = ""
    /\ run = 1
    /\ file_pool = 0
    /\ file_input_sections = <<>>
    /\ symbols = <<>>
    /\ input_sections = <<>>
    /\ output_sections = <<>>
    /\ global_symbols = <<>>
    /\ chunks = <<>>
    /\ filesize = 0
    /\ buf = EmptyBuf
    /\ prev_output = NoOutput

SeqsUpTo(S, n) == UNION {[1..k -> S] : k \in 1..n}

(* Objects that define `bar` (GLOBAL or WEAK) or refer to it, with or    *)
(* without an R_X86_64_64 relocation at .text+0 against it.              *)
SymObjects ==
    {MkObject([bar |-> b, bval |-> 4, rel |-> r, tsize |-> 16,
               sec2 |-> "data", s2size |-> 8]) :
        b \in {"strong", "weak", "undef"},
        r \in {<<>>, <<Rela(0, "R_X86_64_64", 2, 5)>>}}

(* Objects whose sections vary in kind and size.                          *)
LayoutObjects ==
    {MkObject([bar |-> "weak", bval |-> 0, rel |-> <<>>, tsize |-> t,
               sec2 |-> k, s2size |-> IF k \in {"bss", "tdata"} THEN 4100 ELSE 8]) :
        t \in {16, 4097}, k \in {"data", "bss", "tbss", "tdata", "hot"}}

(* A definer of `bar` and a referrer with relocations against it.        *)
RelocTypes ==
    {"R_X86_64_NONE", "R_X86_64_8", "R_X86_64_16", "R_X86_64_32",
     "R_X86_64_32S", "R_X86_64_64", "R_X86_64_PC32", "R_X86_64_PLT32",
     "R_X86_64_GOT32", "R_X86_64_GOTTPOFF", "R_X86_64_GOTPCRELX",
     "R_X86_64_PC64"}

Addends == {-5000000, -4, 0, 5}

Definers ==
    {MkObject([bar |-> "strong", bval |-> v, rel |-> <<>>, tsize |-> 16,
               sec2 |-> "data", s2size |-> 8]) : v \in {0, 12}}

(* Relocation lists of .rela.text: one record, or that record followed   *)
(* by a second one at offset 12, past the widest first site.              *)
RelaLists ==
    LET first == {Rela(o, t, 2, a) : o \in {0, 4}, t \in RelocTypes, a \in Addends}
        second == {Rela(12, t, 2, a) :
                      t \in {"R_X86_64_NONE", "R_X86_64_PC32", "R_X86_64_32"},
                      a \in {-5000000, 5}}
    IN  {<<f>> : f \in first} \cup {<<f, g>> : f \in first, g \in second}

Referrers ==
    {MkObject([bar |-> "undef", bval |-> 0, rel |-> r,
               tsize |-> 16, sec2 |-> "hot", s2size |-> 8]) : r \in RelaLists}

RelocInputs ==
    {<<d, r>> : d \in Definers, r \in Referrers}
    \cup {<<r, d>> : d \in Definers, r \in Referrers}

(* Objects whose `bar` is absolute, defined in .text or undefined, with  *)
(* or without an R_X86_64_64 relocation at .text+0 against it.           *)
AbsObjects ==
    {MkObject([bar |-> b, bval |-> 4, rel |-> r, tsize |-> 16,
               sec2 |-> "data", s2size |-> 8]) :
        b \in {"abs", "strong", "undef"},
        r \in {<<>>, <<Rela(0, "R_X86_64_64", 2, 5)>>}}

(* One object whose second section takes any of these names, types and  *)
(* flags.                                                                *)
ParseNames ==
    {N_data, N_note_GNU_stack, N_debug_types, N_debug_gnu_pubnames,
     N_debug_gnu_pubtypes, N_gnu_warning_ \o <<"x">>}

ParseTypes ==
    {"PROGBITS", "NULL", "REL", "RELA", "SYMTAB", "STRTAB", "NOTE", "GROUP",
     "SYMTAB_SHNDX"}

ParseFlags == {{}, {"ALLOC", "WRITE"}, {"EXCLUDE"}, {"ALLOC", "EXCLUDE"}}

(* An object with two retained sections named .text (sections 1 and 2)   *)
(* and one .rela.text section for each: section 3 with sh_info 1 and     *)
(* records rel1, section 4 with sh_info 2 and records rel2.              *)
MkObjectTwin(rel1, rel2) ==
    LET base == MkObjectSec([bar |-> "weak", bval |-> 0, rel |-> rel1, tsize |-> 16],
                            ElfSec(N_text, "PROGBITS", {"ALLOC", "EXECINSTR"}, 16, <<>>))
    IN  [base EXCEPT !.sections =
            SubSeq(base.sections, 1, 3)
            \o << [base.sections[4] EXCEPT !.sh_info = 1],
                  [ElfSec(N_rela \o N_text, "RELA", {}, 24 * Len(rel2), rel2)
                      EXCEPT !.sh_info = 2] >>
            \o SubSeq(base.sections, 5, 7)]

TwinObjects ==
    {MkObjectTwin(rel1, rel2) :
        rel1 \in {<<>>, <<Rela(0, "R_X86_64_64", 2, 5)>>},
        rel2 \in {<<>>, <<Rela(8, "R_X86_64_64", 2, 7)>>}}

ParseObjects ==
    {MkObjectSec([bar |-> "weak", bval |-> 0, rel |-> <<>>, tsize |-> 16],
                 ElfSec(n, t, f, 8, <<>>)) :
        n \in ParseNames, t \in ParseTypes, f \in ParseFlags}
    \cup TwinObjects

(* Objects whose second section shares a canonical name with another     *)
(* section but not always its type and flags.                            *)
BinSections ==
    {ElfSec(N_text \o N_hot, "PROGBITS", {"ALLOC", "EXECINSTR"}, 8, <<>>),
     ElfSec(N_text \o N_hot, "PROGBITS", {"ALLOC", "WRITE"}, 8, <<>>),
     ElfSec(N_text \o N_hot, "NOBITS", {"ALLOC", "EXECINSTR"}, 8, <<>>),
     ElfSec(N_data, "PROGBITS", {"ALLOC", "WRITE"}, 8, <<>>),
     ElfSec(N_data, "NOBITS", {"ALLOC", "WRITE"}, 8, <<>>),
     ElfSec(N_data_rel_ro, "PROGBITS", {"ALLOC", "WRITE"}, 8, <<>>)}

BinObjects ==
    {MkObjectSec([bar |-> "weak", bval |-> 0, rel |-> <<>>, tsize |-> 16], sec) :
        sec \in BinSections}

(* Chunk lists handed to assign_osec_offsets directly (Linker.chunks is  *)
(* a public field): an Ehdr chunk, then Section chunks of any flags,     *)
(* type, power-of-two alignment and size, each with one member.          *)
ChunkShapes ==
    {[flags |-> k[1], sh_type |-> k[2], sh_addralign |-> a, sh_size |-> z] :
        k \in {<<{}, "PROGBITS">>, <<{"ALLOC"}, "PROGBITS">>,
               <<{"ALLOC", "WRITE"}, "NOBITS">>,
               <<{"ALLOC", "WRITE", "TLS"}, "NOBITS">>},
        a \in {1, 16, 8192},
        z \in {24, 4097}}

InitChunks ==
    /\ \E shapes \in SeqsUpTo(ChunkShapes, MaxChunks) :
          /\ output_sections =
                [n \in 1..Len(shapes) |->
                    [id |-> n, name |-> N_data, input_sections |-> <<n>>,
                     sh_type |-> shapes[n].sh_type,
                     sh_flags |-> shapes[n].flags]]
          /\ input_sections =
                [n \in 1..Len(shapes) |->
                    [id |-> n, file |-> None, shndx |-> n, name |-> N_data,
                     sh_type |-> shapes[n].sh_type,
                     sh_flags |-> shapes[n].flags,
                     sh_size |-> shapes[n].sh_size, sh_addralign |-> 1,
                     elf_relas |-> <<>>,
                     offset |-> NoOffset, output_section |-> n]]
          /\ chunks =
                <<OutputEhdr>>
                \o [n \in 1..Len(shapes) |->
                       [OutputSectionRef(output_sections[n]) EXCEPT
                           !.shdr.sh_addralign = shapes[n].sh_addralign]]
    /\ argv = <<>>
    /\ files_order = <<>>
    /\ pc = "layout"
    /\ fault = ""
    /\ run = 1
    /\ file_pool = 0
    /\ file_input_sections = <<>>
    /\ symbols = <<>>
    /\ global_symbols = <<>>
    /\ filesize = 0
    /\ buf = EmptyBuf
    /\ prev_output = NoOutput

Init == InitWith(SeqsUpTo(SymObjects, MaxObjs))

InitLayout == InitWith(SeqsUpTo(LayoutObjects, MaxObjs))

InitReloc == InitWith(RelocInputs)

Next ==
    \/ ParseNext
    \/ ResolveSymbols
    \/ BinInputSections
    \/ SetSectionIndices
    \/ UpdateShdr
    \/ AssignOsecOffsets
    \/ Relocation
    \/ Rerun

Spec == Init /\ [][Next]_vars

SpecLayout == InitLayout /\ [][Next]_vars

SpecReloc == InitReloc /\ [][Next]_vars

InitAbs == InitWith(SeqsUpTo(AbsObjects, MaxObjs))

InitParse == InitWith(SeqsUpTo(ParseObjects, 1))

InitBin == InitWith(SeqsUpTo(BinObjects, MaxObjs))

SpecAbs == InitAbs /\ [][Next]_vars

SpecParse == InitParse /\ [][Next]_vars

SpecBin == InitBin /\ [][Next]_vars

NextChunks == AssignOsecOffsets

SpecChunks == InitChunks /\ [][NextChunks]_vars

(* Chunk lists handed to update_shdr directly, after                     *)
(* set_section_indices: Ehdr, Phdr, Shdr, then output sections of        *)
(* pairwise different (name, type, flags), then the three tables.        *)
(* Context::get_or_create_output_section_mut takes any name, so the      *)
(* names include one that ends with another.                             *)
NameShapes ==
    {[name |-> N_rela \o N_text, sh_type |-> "RELA", flags |-> {}],
     [name |-> N_text, sh_type |-> "PROGBITS", flags |-> {"ALLOC", "EXECINSTR"}],
     [name |-> N_text, sh_type |-> "PROGBITS", flags |-> {"ALLOC", "WRITE"}],
     [name |-> N_data, sh_type |-> "PROGBITS", flags |-> {"ALLOC", "WRITE"}],
     [name |-> N_tbss, sh_type |-> "NOBITS", flags |-> {"ALLOC", "WRITE", "TLS"}],
     [name |-> N_bss, sh_type |-> "NOBITS", flags |-> {"ALLOC", "WRITE"}]}

InitNames ==
    /\ \E shapes \in SeqsUpTo(NameShapes, MaxChunks) :
          /\ \A a, b \in 1..Len(shapes) : shapes[a] = shapes[b] => a = b
          /\ output_sections =
                [n \in 1..Len(shapes) |->
                    [id |-> n, name |-> shapes[n].name, input_sections |-> <<>>,
                     sh_type |-> shapes[n].sh_type,
                     sh_flags |-> shapes[n].flags]]
          /\ chunks = set_section_indices(
                          DriverChunks(output_sections,
                                       [n \in 1..Len(shapes) |-> n]))
    /\ input_sections = <<>>
    /\ argv = <<>>
    /\ files_order = <<>>
    /\ pc = "shdr"
    /\ fault = ""
    /\ run = 1
    /\ file_pool = 0
    /\ file_input_sections = <<>>
    /\ symbols = <<>>
    /\ global_symbols = <<>>
    /\ filesize = 0
    /\ buf = EmptyBuf
    /\ prev_output = NoOutput

NextNames == UpdateShdr

SpecNames == InitNames /\ [][NextNames]_vars

(* ------------------------------------------------------------------ *)
(* Properties                                                           *)
(* ------------------------------------------------------------------ *)
AfterBin == pc \in {"indices", "shdr", "layout", "relocate", "done"}

AfterLayout == pc \in {"relocate", "done"}

(* The defined global slots named `name` over the objects of argv.       *)
Definitions(name) ==
    {ref \in UNION {{<<id, i>> : i \in argv[id].first_global..
                                       (Len(argv[id].symbols) - 1)} :
                    id \in 1..Len(argv)} :
        ESym(ref).name = name /\ ~is_undefined(ESym(ref))}

GlobalNames ==
    UNION {{ESym(<<id, i>>).name :
               i \in argv[id].first_global..(Len(argv[id].symbols) - 1)} :
           id \in 1..Len(argv)}

(* S of the address formulas for the definition `ref`: the address of    *)
(* its input section X in output section O, O.sh_addr + (X.sh_offset -   *)
(* O.sh_offset), plus the symbol's st_value.                             *)
DefAddr(ref) ==
    LET X == input_sections[At0(file_input_sections[ref[1]], ESym(ref).st_shndx)]
        O == CHOOSE n \in 1..Len(chunks) :
                chunks[n].kind = "Section" /\ chunks[n].osec = X.output_section
    IN  chunks[O].shdr.sh_addr + (X.offset - chunks[O].shdr.sh_offset)
        + ESym(ref).st_value

(* Address of an input section by the same formula.                       *)
IsecAddr(X) ==
    LET O == CHOOSE n \in 1..Len(chunks) :
                chunks[n].kind = "Section" /\ chunks[n].osec = X.output_section
    IN  chunks[O].shdr.sh_addr + (X.offset - chunks[O].shdr.sh_offset)

(* Byte i of the little-endian 64-bit two's complement encoding of v,    *)
(* for |v| < 2^31: a negative v is the complement of -v - 1.             *)
TwosByte(v, i) ==
    IF v >= 0
    THEN IF i <= 3 THEN (v \div (256 ^ i)) % 256 ELSE 0
    ELSE IF i <= 3 THEN 255 - ((((-v) - 1) \div (256 ^ i)) % 256) ELSE 255

(* The bytes b holds at offset..offset + width - 1 encode v.              *)
Holds(b, offset, width, v) ==
    \A i \in 0..(width - 1) :
        (offset + i) \in DOMAIN b /\ b[offset + i] = TwosByte(v, i)

(* All relocation records attached to input sections, with their section. *)
AttachedRelas ==
    UNION {{[isec |-> input_sections[id], rel |-> input_sections[id].elf_relas[r]] :
               r \in 1..Len(input_sections[id].elf_relas)} :
           id \in 1..Len(input_sections)}

(* C1: add_global_symbol, called with a defined global symbol whose name *)
(* already has a non-weak incumbent in the global table, leaves the      *)
(* entry unchanged, whatever the binding of the new symbol: while        *)
(* objects are parsed, an entry whose symbol is non-weak never changes.  *)
C1_NonWeakIncumbentKept ==
    [][pc = "parse" =>
          \A name \in DOMAIN global_symbols :
              ~is_weak(ESym(global_symbols[name])) =>
                  /\ name \in DOMAIN global_symbols'
                  /\ global_symbols'[name] = global_symbols[name]]_vars

(* C2: with a weak definition of a name in one object and a single       *)
(* non-weak definition in another, a completed link has the global       *)
(* table map the name to the non-weak definition, and every R_X86_64_64  *)
(* relocation against the name, in any object, holds the 8 bytes of      *)
(* addr(non-weak definition) + r_addend.                                 *)
C2_StrongWinsEverywhere ==
    pc = "done" =>
        \A name \in GlobalNames :
            LET weak == {d \in Definitions(name) : is_weak(ESym(d))}
                strong == Definitions(name) \ weak
            IN  (weak # {} /\ Cardinality(strong) = 1) =>
                    LET b == CHOOSE d \in strong : TRUE
                    IN  /\ name \in DOMAIN global_symbols
                        /\ global_symbols[name] = b
                        /\ \A ar \in AttachedRelas :
                              (/\ ar.rel.erela.r_type = "R_X86_64_64"
                               /\ ESym(<<ar.isec.file, ar.rel.erela.r_sym>>).name
                                      = name)
                              => Holds(buf,
                                       ar.isec.offset + ar.rel.erela.r_offset,
                                       8, DefAddr(b) + ar.rel.erela.r_addend)

(* A relocation record whose symbol is an undefined reference that       *)
(* stayed unresolved.                                                    *)
Unresolved(ar) ==
    LET own == ESym(<<ar.isec.file, ar.rel.erela.r_sym>>)
    IN  is_undefined(own) /\ own.name \notin DOMAIN global_symbols

(* C3: a relocation against an undefined reference that stayed           *)
(* unresolved does not abort the link: the relocation pass completes and *)
(* patches the site with the symbol's address taken as 0.                *)
C3_UnresolvedIsZero ==
    [][(pc = "relocate" /\ \E ar \in AttachedRelas : Unresolved(ar)) =>
          /\ pc' = "done"
          /\ \A ar \in AttachedRelas :
                (Unresolved(ar) /\ ar.rel.erela.r_type = "R_X86_64_64") =>
                    Holds(buf', ar.isec.offset + ar.rel.erela.r_offset, 8,
                          ar.rel.erela.r_addend)]_vars

(* C4: linking the same argv twice gives the same output: chunk headers, *)
(* member order, offsets, addresses, symbol table and patched bytes.     *)
C4_SameOutputTwice ==
    (pc = "done" /\ run = 2) => Output = prev_output

(* C5: the members of every OutputSection are listed in insertion order  *)
(* of their objects and, within one object, in ELF section index order.  *)
C5_MembersInInsertionOrder ==
    AfterBin =>
        \A o \in 1..Len(output_sections) :
            \A i, j \in 1..Len(output_sections[o].input_sections) :
                i < j =>
                    LET x == input_sections[output_sections[o].input_sections[i]]
                        y == input_sections[output_sections[o].input_sections[j]]
                    IN  \/ x.file < y.file
                        \/ x.file = y.file /\ x.shndx < y.shndx

(* C6: after assign_osec_offsets every chunk with SHF_ALLOC has          *)
(* sh_offset mod PAGE_SIZE = sh_addr mod PAGE_SIZE.                      *)
C6_PageCongruent ==
    AfterLayout =>
        \A n \in 1..Len(chunks) :
            "ALLOC" \in chunks[n].shdr.sh_flags =>
                chunks[n].shdr.sh_offset % PAGE_SIZE
                    = chunks[n].shdr.sh_addr % PAGE_SIZE

(* The file offset right after chunk n.                                   *)
EndOfChunk(n) ==
    chunks[n].shdr.sh_offset
    + (IF chunks[n].shdr.sh_type = "NOBITS" THEN 0 ELSE chunks[n].shdr.sh_size)

(* A loadable chunk was placed after a chunk that ended inside a page.   *)
C6_Witness ==
    /\ AfterLayout
    /\ \E n \in 2..Len(chunks) :
          /\ "ALLOC" \in chunks[n].shdr.sh_flags
          /\ EndOfChunk(n - 1) % PAGE_SIZE # 0
          /\ chunks[n].shdr.sh_offset > EndOfChunk(n - 1)

(* C7: after assign_osec_offsets every chunk has sh_offset a multiple of *)
(* its sh_addralign and, if it has SHF_ALLOC, sh_addr likewise.          *)
C7_Aligned ==
    AfterLayout =>
        \A n \in 1..Len(chunks) :
            /\ chunks[n].shdr.sh_offset % chunks[n].shdr.sh_addralign = 0
            /\ "ALLOC" \in chunks[n].shdr.sh_flags =>
                  chunks[n].shdr.sh_addr % chunks[n].shdr.sh_addralign = 0

(* A loadable chunk of alignment above the page size, and a non-loadable *)
(* chunk of alignment above 1 placed after a chunk that ended unaligned. *)
C7_Witness ==
    /\ AfterLayout
    /\ \E n \in 2..Len(chunks) :
          /\ "ALLOC" \in chunks[n].shdr.sh_flags
          /\ chunks[n].shdr.sh_addralign > PAGE_SIZE
          /\ chunks[n].shdr.sh_addr > IMAGE_BASE
    /\ \E n \in 2..Len(chunks) :
          /\ "ALLOC" \notin chunks[n].shdr.sh_flags
          /\ chunks[n].shdr.sh_addralign > 1
          /\ EndOfChunk(n - 1) % chunks[n].shdr.sh_addralign # 0

RECURSIVE SumSizes(_)
SumSizes(members) ==
    IF members = <<>> THEN 0
    ELSE input_sections[Head(members)].sh_size + SumSizes(Tail(members))

(* C8: after assign_osec_offsets every member of every Section chunk has *)
(* its offset set; the first member sits at the chunk's sh_offset, each  *)
(* next member right after the previous one, and sh_size is the sum of   *)
(* the members' sizes.                                                   *)
C8_MembersContiguous ==
    AfterLayout =>
        \A n \in 1..Len(chunks) :
            chunks[n].kind = "Section" =>
                LET members == output_sections[chunks[n].osec].input_sections
                IN  /\ \A i \in 1..Len(members) :
                          input_sections[members[i]].offset # NoOffset
                    /\ members # <<>> =>
                          input_sections[members[1]].offset
                              = chunks[n].shdr.sh_offset
                    /\ \A i \in 1..(Len(members) - 1) :
                          input_sections[members[i + 1]].offset
                              = input_sections[members[i]].offset
                                + input_sections[members[i]].sh_size
                    /\ chunks[n].shdr.sh_size = SumSizes(members)

(* A Section chunk with two members of non-zero size was laid out.       *)
C8_Witness ==
    /\ AfterLayout
    /\ \E n \in 1..Len(chunks) :
          /\ chunks[n].kind = "Section"
          /\ Len(output_sections[chunks[n].osec].input_sections) >= 2
          /\ \A m \in 1..Len(output_sections[chunks[n].osec].input_sections) :
                input_sections[
                    output_sections[chunks[n].osec].input_sections[m]].sh_size > 0
          /\ chunks[n].shdr.sh_offset > 0

AbsoluteTypes ==
    {"R_X86_64_8", "R_X86_64_16", "R_X86_64_32", "R_X86_64_32S", "R_X86_64_64"}

PcRelativeTypes == {"R_X86_64_PC32", "R_X86_64_PLT32"}

GotTypes == {"R_X86_64_GOT32", "R_X86_64_GOTTPOFF", "R_X86_64_GOTPCRELX"}

Width(r_type) ==
    CASE r_type = "R_X86_64_8" -> 1
      [] r_type = "R_X86_64_16" -> 2
      [] r_type = "R_X86_64_64" -> 8
      [] r_type = "R_X86_64_NONE" -> 0
      [] OTHER -> 4

(* The range of buffer offsets relocation record ar may write.            *)
Site(ar) ==
    (ar.isec.offset + ar.rel.erela.r_offset)..
    (ar.isec.offset + ar.rel.erela.r_offset + Width(ar.rel.erela.r_type) - 1)

(* S + A, or S + A - P, for the record ar whose symbol resolved to a     *)
(* definition.                                                           *)
ExpectedValue(ar) ==
    LET S == DefAddr(Cell(symbols, ar.rel.symbol).esym)
        A == ar.rel.erela.r_addend
        P == IsecAddr(ar.isec) + ar.rel.erela.r_offset
    IN  IF ar.rel.erela.r_type \in PcRelativeTypes THEN S + A - P ELSE S + A

(* C9: a completed relocation pass has written, for every record of an   *)
(* absolute type the low 1/2/4/4/8 bytes of S + A and for every record   *)
(* of a PC-relative type the low 4 bytes of S + A - P (modulo 2^64,      *)
(* little-endian) at isec offset + r_offset, and has written no byte     *)
(* outside the records' sites; R_X86_64_NONE writes nothing.             *)
C9_RelocationBytes ==
    pc = "done" =>
        /\ \A ar \in AttachedRelas :
              ar.rel.erela.r_type \in AbsoluteTypes \cup PcRelativeTypes =>
                  Holds(buf, ar.isec.offset + ar.rel.erela.r_offset,
                        Width(ar.rel.erela.r_type), ExpectedValue(ar))
        /\ DOMAIN buf = UNION {Site(ar) : ar \in AttachedRelas}

(* A completed link applied a PC-relative record with a negative value   *)
(* and an 8-byte absolute record with a negative value.                  *)
C9_Witness ==
    /\ pc = "done"
    /\ \E ar \in AttachedRelas :
          /\ ar.rel.erela.r_type = "R_X86_64_PC32"
          /\ ExpectedValue(ar) < 0
          /\ ar.rel.erela.r_offset > 0
          /\ buf[ar.isec.offset + ar.rel.erela.r_offset + 3] = 255
    /\ \E ar \in AttachedRelas :
          /\ ar.rel.erela.r_type = "R_X86_64_64"
          /\ ExpectedValue(ar) < 0
          /\ buf[ar.isec.offset + ar.rel.erela.r_offset + 7] = 255

(* C10: a relocation of type R_X86_64_GOT32, R_X86_64_GOTTPOFF or        *)
(* R_X86_64_GOTPCRELX is recoverable: the relocation pass completes and  *)
(* 4 zero bytes are written at the relocation site.                      *)
C10_GotIsRecoverable ==
    [][(pc = "relocate" /\ \E ar \in AttachedRelas :
                              ar.rel.erela.r_type \in GotTypes) =>
          /\ pc' = "done"
          /\ \A ar \in AttachedRelas :
                ar.rel.erela.r_type \in GotTypes =>
                    Holds(buf', ar.isec.offset + ar.rel.erela.r_offset, 4, 0)]_vars

(* The ElfSymbol a relocation record's symbol cell carries.               *)
RelaESym(ar) == ESym(Cell(symbols, ar.rel.symbol).esym)

(* C11: in the relocation pass a symbol whose section index is SHN_ABS   *)
(* has S = st_value, no input-section address added, and the relocation  *)
(* is applied with that S: the pass completes and an R_X86_64_64 record  *)
(* against it holds the 8 bytes of st_value + r_addend.                  *)
C11_AbsSymbolAddress ==
    [][(pc = "relocate" /\ \E ar \in AttachedRelas : is_abs(RelaESym(ar))) =>
          /\ pc' = "done"
          /\ \A ar \in AttachedRelas :
                (is_abs(RelaESym(ar)) /\ ar.rel.erela.r_type = "R_X86_64_64") =>
                    Holds(buf', ar.isec.offset + ar.rel.erela.r_offset, 8,
                          RelaESym(ar).st_value + ar.rel.erela.r_addend)]_vars

(* The chunk of the output section that input section X is a member of.  *)
ChunkOf(X) ==
    chunks[CHOOSE n \in 1..Len(chunks) :
              chunks[n].kind = "Section" /\ chunks[n].osec = X.output_section]

(* The input section a defined, non-absolute ELF symbol lies in.          *)
SectionOfSym(ref) ==
    input_sections[At0(file_input_sections[ref[1]], ESym(ref).st_shndx)]

(* C12: every symbol emitted into .symtab that is defined in input       *)
(* section X of output section O has st_value = O.sh_addr + (X.sh_offset *)
(* - O.sh_offset) + its raw st_value and st_shndx = the shndx of O's     *)
(* chunk; a symbol with SHN_ABS keeps its st_value and st_shndx.         *)
C12_SymtabValues ==
    AfterLayout =>
        LET tables == get_symtab(chunks, input_sections)
            emitted == get_symbols
        IN  /\ ~tables.panic
            /\ Len(tables.symtab) = Len(emitted) + 1
            /\ \A k \in 1..Len(emitted) :
                  LET ref == Cell(symbols, emitted[k]).esym
                      out == tables.symtab[k + 1]
                  IN  IF is_abs(ESym(ref))
                      THEN /\ out.st_value = ESym(ref).st_value
                           /\ out.st_shndx = SHN_ABS
                      ELSE /\ out.st_value = DefAddr(ref)
                           /\ out.st_shndx = ChunkOf(SectionOfSym(ref)).shndx

(* The emitted table holds an absolute symbol and a symbol with a raw    *)
(* value above 0 that lies in a member placed past the start of its      *)
(* output section.                                                       *)
C12_Witness ==
    /\ AfterLayout
    /\ \E k \in 1..Len(get_symbols) :
          is_abs(ESym(Cell(symbols, get_symbols[k]).esym))
    /\ \E k \in 1..Len(get_symbols) :
          LET ref == Cell(symbols, get_symbols[k]).esym
          IN  /\ ~is_abs(ESym(ref))
              /\ ESym(ref).st_value > 0
              /\ SectionOfSym(ref).offset
                    > ChunkOf(SectionOfSym(ref)).shdr.sh_offset

AfterResolve == pc \in {"bin", "indices", "shdr", "layout", "relocate", "done"}

(* The symbol slots with index >= first_global whose own ELF symbol is   *)
(* undefined.                                                            *)
UndefinedSlots ==
    {ref \in UNION {{<<id, i>> : i \in argv[id].first_global..
                                       (Len(argv[id].symbols) - 1)} :
                    id \in 1..Len(argv)} : is_undefined(ESym(ref))}

(* C13: after resolve_symbols every slot with index >= first_global      *)
(* whose ELF symbol is undefined and whose name is in the global table   *)
(* has the defining file and the ELF symbol record of the table's entry  *)
(* for that name; an undefined slot whose name is not in the table keeps *)
(* an absent defining file.                                              *)
C13_ResolvedSlots ==
    AfterResolve =>
        \A ref \in UndefinedSlots :
            IF ESym(ref).name \in DOMAIN global_symbols
            THEN LET entry == Cell(symbols, global_symbols[ESym(ref).name])
                 IN  /\ Cell(symbols, ref).file = entry.file
                     /\ Cell(symbols, ref).esym = entry.esym
                     /\ entry.file = global_symbols[ESym(ref).name][1]
                     /\ entry.esym = global_symbols[ESym(ref).name]
            ELSE /\ Cell(symbols, ref).file = None
                 /\ Cell(symbols, ref).esym = ref

(* An undefined slot was resolved to a definition of another object.     *)
C13_Witness ==
    /\ AfterResolve
    /\ \E ref \in UndefinedSlots :
          /\ ESym(ref).name \in DOMAIN global_symbols
          /\ Cell(symbols, ref).file # None
          /\ Cell(symbols, ref).file # ref[1]
          /\ Cell(symbols, ref).esym # ref

(* The last defined global slot of object id named `name`: the one whose *)
(* registration comes last in initialize_symbols.                        *)
LastDefinition(id, name) ==
    LET defs == {i \in argv[id].first_global..(Len(argv[id].symbols) - 1) :
                    ESym(<<id, i>>).name = name /\ ~is_undefined(ESym(<<id, i>>))}
    IN  <<id, CHOOSE i \in defs : \A j \in defs : j <= i>>

(* C14: add_global_symbol, called while an object is parsed with a       *)
(* defined global symbol whose name is absent from the global table,     *)
(* inserts it; called when the incumbent for that name is weak, it       *)
(* replaces the incumbent with the new symbol.                           *)
C14_InsertOrOverrideWeak ==
    [][(pc = "parse" /\ pc' # "panic") =>
          \A name \in {n \in GlobalNames :
                           \E d \in Definitions(n) : d[1] = file_pool + 1} :
              (\/ name \notin DOMAIN global_symbols
               \/ is_weak(ESym(global_symbols[name])))
              => /\ name \in DOMAIN global_symbols'
                 /\ global_symbols'[name] = LastDefinition(file_pool + 1, name)]_vars

(* The table holds a definition that replaced a weak incumbent of an     *)
(* earlier object.                                                       *)
C14_Witness ==
    /\ pc = "resolve"
    /\ \E name \in DOMAIN global_symbols :
          /\ global_symbols[name][1] = 2
          /\ \E d \in Definitions(name) : d[1] = 1 /\ is_weak(ESym(d))

NeverRetainedTypes == {"NULL", "REL", "RELA", "SYMTAB", "STRTAB", "NOTE", "GROUP"}

(* C15: no InputSection retained by initialize_sections has sh_type in   *)
(* {NULL, REL, RELA, SYMTAB, STRTAB, NOTE, GROUP}.                       *)
C15_NoRetainedMetaSection ==
    \A id \in 1..Len(input_sections) :
        input_sections[id].sh_type \notin NeverRetainedTypes

(* An object was parsed that holds a loadable .data section of type      *)
(* NOTE or GROUP, and its .text was retained.                            *)
C15_Witness ==
    /\ pc = "resolve"
    /\ \E i \in 1..Len(argv[1].sections) :
          /\ argv[1].sections[i].sh_type \in {"NOTE", "GROUP"}
          /\ argv[1].sections[i].name = N_data
          /\ "ALLOC" \in argv[1].sections[i].sh_flags
          /\ file_input_sections[1][i] = None
    /\ \E id \in 1..Len(input_sections) : input_sections[id].name = N_text

(* C16: no InputSection is created for a section named .note.GNU-stack,  *)
(* .debug_types, .debug_gnu_pubnames or .debug_gnu_pubtypes, for a       *)
(* section whose name starts with .gnu.warning., or for a section with   *)
(* SHF_EXCLUDE set and SHF_ALLOC clear, whatever its sh_type.            *)
C16_NoIgnoredSection ==
    \A id \in 1..Len(input_sections) :
        /\ input_sections[id].name \notin
              {N_note_GNU_stack, N_debug_types, N_debug_gnu_pubnames,
               N_debug_gnu_pubtypes}
        /\ ~StartsWith(input_sections[id].name, N_gnu_warning_)
        /\ ~("EXCLUDE" \in input_sections[id].sh_flags
             /\ "ALLOC" \notin input_sections[id].sh_flags)

(* C17: parsing an object that contains a section of type                *)
(* SHT_SYMTAB_SHNDX aborts the link, whatever that section's flags and   *)
(* position in the section table.                                        *)
C17_SymtabShndxIsFatal ==
    [][(/\ pc = "parse"
        /\ \E i \in 1..Len(argv[file_pool + 1].sections) :
              argv[file_pool + 1].sections[i].sh_type = "SYMTAB_SHNDX")
       => pc' = "panic"]_vars

(* C18: after bin_input_sections every member X of every OutputSection  *)
(* O has canonical_name(X.name) = O.name, X.sh_type = O.sh_type and      *)
(* X.sh_flags = O.sh_flags.                                              *)
C18_MembersMatchTriple ==
    AfterBin =>
        \A o \in 1..Len(output_sections) :
            \A m \in 1..Len(output_sections[o].input_sections) :
                LET X == input_sections[output_sections[o].input_sections[m]]
                IN  /\ get_output_section_name(X.name) = output_sections[o].name
                    /\ X.sh_type = output_sections[o].sh_type
                    /\ X.sh_flags = output_sections[o].sh_flags

(* An output section holds a member under a longer name, and another     *)
(* output section of the same name has other flags.                      *)
C18_Witness ==
    /\ AfterBin
    /\ \E o, q \in 1..Len(output_sections) :
          /\ o # q
          /\ output_sections[o].name = output_sections[q].name
          /\ output_sections[o].sh_flags # output_sections[q].sh_flags
          /\ \E m \in 1..Len(output_sections[o].input_sections) :
                input_sections[output_sections[o].input_sections[m]].name
                    # output_sections[o].name

Count(sq, x) == Cardinality({i \in 1..Len(sq) : sq[i] = x})

(* C19: one run of bin_input_sections sets the output section of every   *)
(* retained InputSection to some O, lists it exactly once in O's members *)
(* and in no other OutputSection's, and returns each OutputSection that  *)
(* received a member exactly once in the new-sections list.              *)
C19_BinnedExactlyOnce ==
    /\ pc = "bin" =>
          LET r == bin_input_sections
          IN  ~r.panic =>
                  /\ \A id \in 1..Len(r.isecs) :
                        /\ r.isecs[id].output_section \in 1..Len(r.osecs)
                        /\ \A o \in 1..Len(r.osecs) :
                              Count(r.osecs[o].input_sections, id)
                                  = IF o = r.isecs[id].output_section
                                    THEN 1 ELSE 0
                  /\ \A o \in 1..Len(r.osecs) :
                        Count(r.new, o)
                            = IF r.osecs[o].input_sections # <<>> THEN 1 ELSE 0
    /\ AfterBin =>
          \A id \in 1..Len(input_sections) :
              /\ input_sections[id].output_section \in 1..Len(output_sections)
              /\ \A o \in 1..Len(output_sections) :
                    Count(output_sections[o].input_sections, id)
                        = IF o = input_sections[id].output_section THEN 1 ELSE 0

(* bin_input_sections has put the input sections into at least three    *)
(* output sections, one of which took two members.                       *)
C19_Witness ==
    /\ pc = "indices"
    /\ Len(output_sections) >= 3
    /\ \E o \in 1..Len(output_sections) :
          Len(output_sections[o].input_sections) >= 2
    /\ \A o \in 1..Len(output_sections) :
          output_sections[o].input_sections # <<>>

ProbeTriples ==
    {<<n, t, f>> : n \in {N_text, N_data, N_bss}, t \in {"PROGBITS", "NOBITS"},
                   f \in {{"ALLOC", "EXECINSTR"}, {"ALLOC", "WRITE"}}}

(* C20: Context holds at most one OutputSection per (name, sh_type,      *)
(* sh_flags) triple; a get_or_create_output_section_mut call with a      *)
(* triple seen before returns the existing section and creates nothing,  *)
(* a call with a new triple creates exactly one section.                 *)
C20_OneSectionPerTriple ==
    /\ \A a, b \in 1..Len(output_sections) :
          (/\ output_sections[a].name = output_sections[b].name
           /\ output_sections[a].sh_type = output_sections[b].sh_type
           /\ output_sections[a].sh_flags = output_sections[b].sh_flags)
          => a = b
    /\ \A p \in ProbeTriples :
          LET r == get_or_create_output_section_mut(
                       output_sections, p[1], p[2], p[3])
              seen == {o \in 1..Len(output_sections) :
                          /\ output_sections[o].name = p[1]
                          /\ output_sections[o].sh_type = p[2]
                          /\ output_sections[o].sh_flags = p[3]}
          IN  IF seen # {}
              THEN r.osecs = output_sections /\ r.id \in seen
              ELSE /\ Len(r.osecs) = Len(output_sections) + 1
                   /\ SubSeq(r.osecs, 1, Len(output_sections)) = output_sections
                   /\ r.id = Len(r.osecs)
                   /\ r.osecs[r.id].name = p[1]
                   /\ r.osecs[r.id].sh_type = p[2]
                   /\ r.osecs[r.id].sh_flags = p[3]
                   /\ r.osecs[r.id].input_sections = <<>>

(* Context holds two output sections of one name with different flags,   *)
(* so that a probed triple is seen under one of them only.               *)
C20_Witness ==
    /\ AfterBin
    /\ \E a, b \in 1..Len(output_sections) :
          /\ output_sections[a].name = N_text
          /\ output_sections[b].name = N_text
          /\ output_sections[a].sh_type = output_sections[b].sh_type
          /\ output_sections[a].sh_flags = {"ALLOC", "EXECINSTR"}
          /\ output_sections[b].sh_flags = {"ALLOC", "WRITE"}

AfterIndices == pc \in {"shdr", "layout", "relocate", "done"}

(* C21: after set_section_indices the k-th non-header chunk (k counted   *)
(* from 1, in chunk order) has shndx = k, and the Ehdr, Phdr and Shdr    *)
(* chunks have no shndx.                                                 *)
C21_SectionIndices ==
    AfterIndices =>
        \A n \in 1..Len(chunks) :
            IF chunks[n].kind \in {"Ehdr", "Phdr", "Shdr"}
            THEN chunks[n].shndx = None
            ELSE /\ chunks[n].shndx # None
                 /\ chunks[n].shndx =
                       Cardinality({m \in 1..n :
                           chunks[m].kind \notin {"Ehdr", "Phdr", "Shdr"}})

(* Indices were assigned over two output sections and the three tables.  *)
C21_Witness ==
    /\ pc = "shdr"
    /\ Cardinality({n \in 1..Len(chunks) : chunks[n].kind = "Section"}) >= 2
    /\ \E n \in 1..Len(chunks) : chunks[n].kind = "Shstrtab" /\ chunks[n].shndx = 5

AfterUpdateShdr == pc \in {"layout", "relocate", "done"}

IsProperSuffix(s, t) ==
    Len(s) < Len(t) /\ SubSeq(t, Len(t) - Len(s) + 1, Len(t)) = s

(* C22: after update_shdr, for every non-header chunk the bytes of the   *)
(* .shstrtab content that start at the chunk's sh_name are the chunk's   *)
(* section name followed by a zero byte; this includes chunks whose name *)
(* is a suffix of another chunk's name and chunks that share a name.     *)
C22_ShNamePointsAtName ==
    AfterUpdateShdr =>
        LET content == get_shstrtab_content(chunks)
        IN  \A n \in 1..Len(chunks) :
                chunks[n].kind \notin {"Ehdr", "Phdr", "Shdr"} =>
                    LET name == get_section_name(chunks[n])
                        at == chunks[n].shdr.sh_name
                    IN  /\ at + Len(name) + 1 <= Len(content)
                        /\ SubSeq(content, at + 1, at + Len(name)) = name
                        /\ content[at + Len(name) + 1] = NUL

(* .rela.text precedes .text, so .text is found inside the .rela.text    *)
(* entry, and two chunks are both named .text.                           *)
C22_Witness ==
    /\ pc = "layout"
    /\ \E a, b, c \in 1..Len(chunks) :
          /\ a < b /\ b < c
          /\ chunks[a].kind = "Section" /\ chunks[b].kind = "Section"
          /\ chunks[c].kind = "Section"
          /\ IsProperSuffix(get_section_name(chunks[b]), get_section_name(chunks[a]))
          /\ get_section_name(chunks[c]) = get_section_name(chunks[b])
          /\ chunks[b].shdr.sh_name = chunks[c].shdr.sh_name
          /\ chunks[b].shdr.sh_name > chunks[a].shdr.sh_name
          /\ chunks[b].shdr.sh_name < chunks[a].shdr.sh_name
                                       + Len(get_section_name(chunks[a]))

(* The chunks with SHF_ALLOC, as positions in chunk order.               *)
AllocChunks == SelectSeq([n \in 1..Len(chunks) |-> n],
                         LAMBDA n : "ALLOC" \in chunks[n].shdr.sh_flags)

(* C23: create_phdr emits one PT_LOAD header per chunk with SHF_ALLOC    *)
(* and none for the others, in chunk order; each has PF_R, PF_W iff      *)
(* SHF_WRITE, PF_X iff SHF_EXECINSTR, p_offset = sh_offset, p_vaddr =    *)
(* p_paddr = sh_addr, p_filesz = 0 for SHT_NOBITS and sh_size otherwise, *)
(* p_memsz = sh_size and p_align = 0x1000.                               *)
C23_OneLoadPerAllocChunk ==
    AfterLayout =>
        LET phdrs == create_phdr(chunks)
        IN  /\ Len(phdrs) = Len(AllocChunks)
            /\ \A k \in 1..Len(phdrs) :
                  LET shdr == chunks[AllocChunks[k]].shdr
                      ph == phdrs[k]
                  IN  /\ ph.p_type = "PT_LOAD"
                      /\ "PF_R" \in ph.p_flags
                      /\ ("PF_W" \in ph.p_flags) <=> ("WRITE" \in shdr.sh_flags)
                      /\ ("PF_X" \in ph.p_flags) <=> ("EXECINSTR" \in shdr.sh_flags)
                      /\ ph.p_flags \subseteq {"PF_R", "PF_W", "PF_X"}
                      /\ ph.p_offset = shdr.sh_offset
                      /\ ph.p_vaddr = shdr.sh_addr
                      /\ ph.p_paddr = shdr.sh_addr
                      /\ ph.p_filesz = (IF shdr.sh_type = "NOBITS" THEN 0
                                        ELSE shdr.sh_size)
                      /\ ph.p_memsz = shdr.sh_size
                      /\ ph.p_align = 4096

(* Laid-out chunks with an executable section, a writable SHT_NOBITS     *)
(* section of non-zero size, and a non-empty chunk without SHF_ALLOC     *)
(* placed before the last loaded one.                                    *)
C23_Witness ==
    /\ AfterLayout
    /\ \E a, b, c \in 1..Len(chunks) :
          /\ c < b
          /\ chunks[a].shdr.sh_flags = {"ALLOC", "EXECINSTR"}
          /\ chunks[a].shdr.sh_size > 0
          /\ "WRITE" \in chunks[b].shdr.sh_flags
          /\ "ALLOC" \in chunks[b].shdr.sh_flags
          /\ chunks[b].shdr.sh_type = "NOBITS"
          /\ chunks[b].shdr.sh_size > 0
          /\ "ALLOC" \notin chunks[c].shdr.sh_flags
          /\ chunks[c].shdr.sh_size > 0
    /\ Len(create_phdr(chunks)) >= 2

(* Every symbol slot of every object, the empty slot 0 included.          *)
AllSlots ==
    UNION {{<<id, i>> : i \in 0..(Len(symbols[id]) - 1)} : id \in 1..Len(symbols)}

(* C24: a symbol slot of an object is emitted into .symtab and .strtab   *)
(* iff the symbol's defining file is that object, and then once; so an   *)
(* undefined reference resolved to another object is not emitted for the *)
(* referring object, and .symtab's size is 24 * (1 + the number of       *)
(* emitted symbols), with one null entry in front.                       *)
C24_EmittedIffOwnFile ==
    AfterUpdateShdr =>
        LET emitted == get_symbols
            tables == get_symtab(chunks, input_sections)
        IN  /\ \A ref \in AllSlots :
                  Count(emitted, ref) =
                      IF Cell(symbols, ref).some /\ Cell(symbols, ref).file = ref[1]
                      THEN 1 ELSE 0
            /\ \A k \in 1..Len(emitted) : emitted[k] \in AllSlots
            /\ \A ref \in UndefinedSlots :
                  Cell(symbols, ref).file \notin {None, ref[1]}
                  => \A k \in 1..Len(emitted) : emitted[k] # ref
            /\ ~tables.panic
            /\ tables.symtab[1] = NullSym
            /\ Len(tables.symtab) = 1 + Len(emitted)
            /\ \A k \in 1..Len(emitted) :
                  LET at == tables.symtab[k + 1].st_name
                      name == Cell(symbols, emitted[k]).name
                  IN  SubSeq(tables.strtab, at + 1, at + Len(name) + 1)
                         = name \o <<NUL>>
            /\ \A n \in 1..Len(chunks) :
                  chunks[n].kind = "Symtab"
                  => chunks[n].shdr.sh_size = 24 * (1 + Len(emitted))

(* After update_shdr, one object's undefined reference is resolved to a  *)
(* definition in the other object, which emits it.                       *)
C24_Witness ==
    /\ AfterUpdateShdr
    /\ \E ref \in UndefinedSlots :
          /\ Cell(symbols, ref).file \notin {None, ref[1]}
          /\ \E k \in 1..Len(get_symbols) :
                /\ get_symbols[k][1] = Cell(symbols, ref).file
                /\ Cell(symbols, get_symbols[k]).name = Cell(symbols, ref).name
    /\ \E n \in 1..Len(chunks) :
          chunks[n].kind = "Symtab" /\ chunks[n].shdr.sh_size > 48

(* C25: after layout, the virtual address of every InputSection (its     *)
(* output section's sh_addr + its offset - the output section's          *)
(* sh_offset) is a multiple of that input section's own sh_addralign.    *)
C25_MembersAligned ==
    AfterLayout =>
        \A x \in 1..Len(input_sections) :
            input_sections[x].output_section # None
            => IsecAddr(input_sections[x]) % input_sections[x].sh_addralign = 0

(* C26: after assign_osec_offsets no two chunks with SHF_ALLOC and a     *)
(* non-zero sh_size have overlapping virtual address ranges              *)
(* [sh_addr, sh_addr + sh_size), also when one of them has SHF_TLS.      *)
C26_NoVaddrOverlap ==
    AfterLayout =>
        \A a, b \in 1..Len(chunks) :
            (/\ a # b
             /\ "ALLOC" \in chunks[a].shdr.sh_flags
             /\ "ALLOC" \in chunks[b].shdr.sh_flags
             /\ chunks[a].shdr.sh_size > 0
             /\ chunks[b].shdr.sh_size > 0)
            => \/ chunks[a].shdr.sh_addr + chunks[a].shdr.sh_size
                     <= chunks[b].shdr.sh_addr
               \/ chunks[b].shdr.sh_addr + chunks[b].shdr.sh_size
                     <= chunks[a].shdr.sh_addr

(* The chunks that take space in the file.                                *)
FileChunks == {n \in 1..Len(chunks) : chunks[n].shdr.sh_type # "NOBITS"}

(* C27: after assign_osec_offsets the file ranges [sh_offset, sh_offset  *)
(* + sh_size) of the chunks that are not SHT_NOBITS are pairwise         *)
(* disjoint, increase in chunk order and end at or before the returned   *)
(* file size; every byte copy_buf writes lies inside a buffer of that    *)
(* size, inside the range of the chunk it is written for, and so in no   *)
(* other chunk's range.                                                  *)
C27_FileRangesDisjoint ==
    AfterLayout =>
        LET writes == CopyBufWrites(chunks, input_sections)
        IN  /\ \A a, b \in FileChunks :
                  a < b => chunks[a].shdr.sh_offset + chunks[a].shdr.sh_size
                              <= chunks[b].shdr.sh_offset
            /\ \A a \in FileChunks :
                  /\ chunks[a].shdr.sh_offset >= 0
                  /\ chunks[a].shdr.sh_offset + chunks[a].shdr.sh_size <= filesize
            /\ \A w \in 1..Len(writes) :
                  /\ writes[w].chunk \in FileChunks
                  /\ writes[w].from >= chunks[writes[w].chunk].shdr.sh_offset
                  /\ writes[w].from + writes[w].size
                        <= chunks[writes[w].chunk].shdr.sh_offset
                              + chunks[writes[w].chunk].shdr.sh_size
                  /\ writes[w].from + writes[w].size <= filesize
            /\ \A v, w \in 1..Len(writes) :
                  v < w => \/ writes[v].from + writes[v].size <= writes[w].from
                           \/ writes[w].from + writes[w].size <= writes[v].from

(* A laid-out file where a SHT_NOBITS chunk of non-zero size and a       *)
(* SHT_PROGBITS chunk with SHF_TLS are both followed by chunks that take *)
(* file space, and copy_buf writes past the second page.                 *)
C27_Witness ==
    /\ AfterLayout
    /\ \E a, b \in 1..Len(chunks) :
          /\ chunks[a].shdr.sh_type = "NOBITS"
          /\ chunks[a].shdr.sh_size > 0
          /\ chunks[b].shdr.sh_type = "PROGBITS"
          /\ "TLS" \in chunks[b].shdr.sh_flags
          /\ chunks[b].shdr.sh_size > 0
          /\ \E c \in FileChunks : c > a /\ c > b /\ chunks[c].shdr.sh_size > 0
    /\ \E w \in 1..Len(CopyBufWrites(chunks, input_sections)) :
          CopyBufWrites(chunks, input_sections)[w].from > 2 * PAGE_SIZE

(* C28: the assertion of resolve_symbols, that the global-table symbol   *)
(* found for an undefined reference has a defining file, never fails:    *)
(* after any sequence of add_global_symbol calls every table entry is a  *)
(* defined global symbol of that name held in a slot of an object in     *)
(* Context, and the first loop of resolve_symbols gives it a defining    *)
(* file, which it keeps.                                                 *)
C28_AssertNeverFails ==
    /\ fault # "resolve_symbols"
    /\ \A name \in DOMAIN global_symbols :
          LET entry == global_symbols[name]
          IN  /\ entry[1] \in 1..file_pool
              /\ entry[2] >= argv[entry[1]].first_global
              /\ entry[2] < Len(symbols[entry[1]])
              /\ Cell(symbols, entry).some
              /\ Cell(symbols, entry).global
              /\ ESym(entry).name = name
              /\ ~is_undefined(ESym(entry))
              /\ pc = "resolve" =>
                    /\ Cell(SetDefinedFiles(symbols), entry).file = entry[1]
                    /\ ~ResolveAssertFails(SetDefinedFiles(symbols), global_symbols)
              /\ AfterResolve =>
                    /\ Cell(symbols, entry).file = entry[1]
                    /\ Cell(symbols, entry).esym = entry

(* resolve_symbols has looked up an undefined reference whose name is in *)
(* the table and has passed the assertion.                               *)
C28_Witness ==
    /\ pc = "bin"
    /\ \E ref \in UndefinedSlots :
          /\ ESym(ref).name \in DOMAIN global_symbols
          /\ Cell(symbols, ref).file = global_symbols[ESym(ref).name][1]

CanonicalNames == {COMMON_SECTION_NAMES[k] : k \in 1..Len(COMMON_SECTION_NAMES)}

(* C29: get_output_section_name is the identity on the ten names of      *)
(* COMMON_SECTION_NAMES: an input section whose name is one of them is   *)
(* binned into an output section of that same name.                      *)
C29_CanonicalNamesFixed ==
    AfterBin =>
        \A x \in 1..Len(input_sections) :
            (/\ input_sections[x].name \in CanonicalNames
             /\ input_sections[x].output_section # None)
            => output_sections[input_sections[x].output_section].name
                  = input_sections[x].name

(* The .rela sections of obj that target section t (0-based), by their   *)
(* sh_info.                                                              *)
RelaSectionsFor(obj, t) ==
    {i \in 1..Len(obj.sections) :
        /\ obj.sections[i].sh_type = "RELA"
        /\ StartsWith(obj.sections[i].name, N_rela)
        /\ obj.sections[i].sh_info = t}

(* The pairs of retained sections of obj (0-based) that share a name and *)
(* are each targeted by exactly one .rela section.                       *)
TwinSections(obj) ==
    {p \in (0..(Len(obj.sections) - 1)) \X (0..(Len(obj.sections) - 1)) :
        /\ p[1] < p[2]
        /\ (p[1] + 1) \in Retained(obj)
        /\ (p[2] + 1) \in Retained(obj)
        /\ obj.sections[p[1] + 1].name = obj.sections[p[2] + 1].name
        /\ Cardinality(RelaSectionsFor(obj, p[1])) = 1
        /\ Cardinality(RelaSectionsFor(obj, p[2])) = 1}

(* C30: when an object has two retained sections of the same name, each  *)
(* targeted by its own .rela section, then after parse each of the two   *)
(* InputSections holds exactly the relocation records of the .rela       *)
(* section that targets it.                                              *)
C30_OwnRelocations ==
    \A id \in 1..Len(file_input_sections) :
        \A p \in TwinSections(argv[id]) :
            \A t \in {p[1], p[2]} :
                LET X == input_sections[At0(file_input_sections[id], t)]
                    r == CHOOSE i \in RelaSectionsFor(argv[id], t) : TRUE
                IN  [k \in 1..Len(X.elf_relas) |-> X.elf_relas[k].erela]
                       = argv[id].sections[r].relas

====
